---- MODULE Spec2Model ----
(***************************************************************************)
(* Model of the ESR-System firmware (src/Firmware): the raw PCM streamer   *)
(* (wav_file_player.py), the playback routine and GPIO lines               *)
(* (hardware_controller.py), the request handler and the lock-guarded      *)
(* mailbox (network_controller.py) and the audio main loop (main.py).      *)
(***************************************************************************)
EXTENDS Integers, Sequences, FiniteSets, TLC

\* ------------------------------------------------------------------ bounds
\* Longest PCM asset, in bytes, of the streamer specification (ten buffers
\* of one byte fit in it, as ten 4800-byte buffers fit in a 48000-byte asset).
MaxLen == 10
\* Largest number of frames asked of generate_buffer in the streamer specification.
MaxFrames == 3
\* Number of generate_buffer calls followed in the streamer specification.
MaxCalls == 5
\* Longest requested playback, in clock ticks (a tick is the time one
\* blocking bus write takes).
MaxDuration == 1

\* ------------------------------------------------------------- small helpers
Min(a, b) == IF a < b THEN a ELSE b

\* Python's None (an empty slot, an absent local); a present value x is <<x>>.
None == <<>>

\* ---------------------------------------------------------------------------
\* State.
VARIABLES
    \* --- RawFilePlayer (wav_file_player.py) ---
    data,            \* the content of the raw PCM file, a sequence of bytes
    frame_size,      \* bytes per frame
    byte_position,   \* PlaybackCursor
    buffers,         \* the three StreamBuffers, indexed 0..2
    current,         \* index of the buffer served next
    buf_bytes,       \* byte size the buffers were last filled with
    \* --- history of the streamer specification ---
    sizes,           \* byte sizes of the generate_buffer calls made, in order
    served,          \* concatenation of the buffers returned, in call order
    pulled,          \* the generate_buffer calls that returned, modulo the file length
    \* --- WiFiController mailbox (network_controller.py:26-31) ---
    audio_playing,   \* PlaybackState: TRUE = Playing
    play_request,    \* play slot: None or <<[duration, volume]>>
    gain_request,    \* gain slot: None or <<level>>
    play_request_lock, \* "free", or the context holding it: "net", "audio"
    \* --- network context (handle_request) ---
    net_pc,          \* "accept", "play_lock", "play_cs", "gain_lock", "gain_cs", "close"
    n_duration,      \* local duration of the /play being handled
    n_volume,        \* local volume of the /play being handled
    n_level,         \* local gain_level of the /gain being handled
    response,        \* the response sent on the current connection
    \* --- audio context (main loop and play_audio) ---
    pc,              \* position of the audio context
    gain_level,      \* main: result of check_gain_request
    request,         \* main: result of check_play_request
    i,               \* play_audio: pre-fill loop index
    elapsed,         \* play_audio: ticks since start_ms
    exc,             \* exception propagating out of play_audio, or None
    \* --- HardwareController GPIO lines ---
    dac_mute, amp_sd, amp_gain0, amp_gain1,
    \* --- history ---
    outstanding,     \* accepted /play requests not yet followed by mark-idle
    owed,            \* play requests taken by the audio context, not yet marked idle
    rejected,        \* /play requests rejected since the last acceptance (up to 2)
    last_accepted,   \* the request of the accepted /play not yet marked idle
    last_posted,     \* the level of the last /gain stored since the last take
    overwrote,       \* that /gain replaced another level nobody had taken
    took,            \* <<[level, overwrote]>> of the take being applied
    abort,           \* why the current playback left its loops
    \* --- one direct call of a method (the specifications of single methods) ---
    outcome,         \* "none", what the call did, or the exception it raised
    \* --- RawFilePlayer.__init__ and _read_chunk ---
    data_size,       \* None before __init__, then <<length of the file>>
    read_pos,        \* the arguments pos and size of the _read_chunk call made
    read_size,
    read_chunk,      \* the bytes it returned
    \* --- play_audio's pull-and-scale step and _viper_scale16 ---
    raw,             \* the bytes pulled from generate_buffer
    buf,             \* bytearray(raw), scaled in place
    vol_q15,         \* the Q15 volume
    \* --- direct calls of HardwareController.set_gain ---
    gain_calls,      \* the gain_level arguments of the calls made, in order
    \* --- WiFiController.connect_wifi and its caller server_loop ---
    network_config,  \* the retry parameters and whether credentials are set
    wifi_connected,  \* self.wifi_connected
    conn_pc,         \* "disconnected", "loop", "poll", "sleep", "connected", "failed"
    retry_count,     \* connect_wifi: failed attempts of this call
    retry_delay,     \* connect_wifi: the current delay, in ms
    poll,            \* connect_wifi: index of the status poll, line 94
    slept,           \* the delays slept at line 116 during this call, in order
    connect_calls,   \* the wlan.connect() calls made during this call
    wlan,            \* the WLAN interface: "idle", "joining", or "up" (isconnected())
    \* --- WiFiController.server_loop and handle_request ---
    server_running,  \* self.server_running
    sock,            \* self.socket: "none", "unbound", "listening", "closed"
    leds,            \* the four LED outputs, indexed 1..4
    client,          \* the accepted connection: open, request kind, responses sent,
                     \* send() calls that raised
    sessions         \* the successful start_server calls so far, up to MaxSessions

streamVars == <<data, frame_size, byte_position, buffers, current, buf_bytes>>
streamHist == <<sizes, served, pulled>>
mailboxVars == <<audio_playing, play_request, gain_request, play_request_lock>>
netVars == <<net_pc, n_duration, n_volume, n_level, response>>
audioVars == <<pc, gain_level, request, i, elapsed, exc>>
gpioVars == <<dac_mute, amp_sd, amp_gain0, amp_gain1>>
histVars == <<outstanding, owed, rejected, last_accepted, last_posted, overwrote, took, abort>>
controlVars == <<mailboxVars, netVars, audioVars, gpioVars, histVars>>
readVars == <<data_size, read_pos, read_size, read_chunk>>
scaleVars == <<raw, buf, vol_q15>>
serverVars == <<server_running, sock, leds, client, sessions>>
connVars == <<network_config, wifi_connected, conn_pc, retry_count, retry_delay, poll, slept,
              connect_calls, wlan, serverVars>>
unitVars == <<outcome, readVars, scaleVars, gain_calls, connVars>>

vars == <<streamVars, streamHist, controlVars, unitVars>>

\* ---------------------------------------------------------------------------
\* RawFilePlayer._read_chunk: `size` bytes of file d from offset pos, wrapping.

\* The while loop of _read_chunk: as long as the chunk is short, seek(0) and
\* read min(data_size, need) bytes; an empty piece ends the loop.
RECURSIVE WrapFill(_, _, _)
WrapFill(chunk, d, size) ==
    IF Len(chunk) < size
    THEN LET need  == size - Len(chunk)
             piece == SubSeq(d, 1, Min(Len(d), need))
         IN  IF piece = <<>> THEN chunk ELSE WrapFill(chunk \o piece, d, size)
    ELSE chunk

\* A _read_chunk that does not wrap at end-of-file (returns the short read).
ReadChunkNoWrap(d, pos, size) ==
    LET p == pos % Len(d)
    IN  SubSeq(d, p + 1, Min(Len(d), p + size))

ReadChunk(d, pos, size) ==
    LET p     == pos % Len(d)
        first == SubSeq(d, p + 1, Min(Len(d), p + size))
    IN  WrapFill(first, d, size)

\* ---------------------------------------------------------------------------
\* RawFilePlayer.generate_buffer on a streamer state
\* st = [byte_position, buffers, current, buf_bytes]; the result is the new
\* state and the view returned (mv).

\* A size change that refills the three buffers but keeps current.
RefillAllKeepCurrent(st, d, num_bytes) ==
    IF st.buf_bytes # num_bytes
    THEN [st EXCEPT !.buf_bytes = num_bytes,
                    !.buffers = [b \in 0..2 |->
                        ReadChunk(d, (st.byte_position + b * num_bytes) % Len(d), num_bytes)]]
    ELSE st

\* Lines 63-68: on a size change refill all three buffers and reset current.
RefillAll(st, d, num_bytes) ==
    IF st.buf_bytes # num_bytes
    THEN [st EXCEPT !.buf_bytes = num_bytes,
                    !.buffers = [b \in 0..2 |->
                        ReadChunk(d, (st.byte_position + b * num_bytes) % Len(d), num_bytes)],
                    !.current = 0]
    ELSE st

\* A generate_buffer that refills the slot one step ahead instead of two.
GenerateBufferRefillNext(st, d, fs, desired_frames) ==
    LET num_bytes  == desired_frames * fs
        s1         == RefillAll(st, d, num_bytes)
        mv         == s1.buffers[s1.current]
        refill_idx == (s1.current + 1) % 3
        next_pos   == (s1.byte_position + 2 * num_bytes) % Len(d)
    IN  [st |-> [s1 EXCEPT !.buffers[refill_idx] = ReadChunk(d, next_pos, num_bytes),
                           !.byte_position = (s1.byte_position + num_bytes) % Len(d),
                           !.current = (s1.current + 1) % 3],
         mv |-> mv]

\* A generate_buffer that refills the slot it is returning.
GenerateBufferRefillCurrent(st, d, fs, desired_frames) ==
    LET num_bytes  == desired_frames * fs
        s1         == RefillAll(st, d, num_bytes)
        mv         == s1.buffers[s1.current]
        refill_idx == s1.current
        next_pos   == (s1.byte_position + 2 * num_bytes) % Len(d)
    IN  [st |-> [s1 EXCEPT !.buffers[refill_idx] = ReadChunk(d, next_pos, num_bytes),
                           !.byte_position = (s1.byte_position + num_bytes) % Len(d),
                           !.current = (s1.current + 1) % 3],
         mv |-> mv]

GenerateBuffer(st, d, fs, desired_frames) ==
    LET num_bytes  == desired_frames * fs
        s1         == RefillAll(st, d, num_bytes)
        mv         == s1.buffers[s1.current]
        refill_idx == (s1.current + 2) % 3
        next_pos   == (s1.byte_position + 2 * num_bytes) % Len(d)
    IN  [st |-> [s1 EXCEPT !.buffers[refill_idx] = ReadChunk(d, next_pos, num_bytes),
                           !.byte_position = (s1.byte_position + num_bytes) % Len(d),
                           !.current = (s1.current + 1) % 3],
         mv |-> mv]

\* The streamer state held in the variables.
Streamer ==
    [byte_position |-> byte_position, buffers |-> buffers,
     current |-> current, buf_bytes |-> buf_bytes]

\* RawFilePlayer.__init__, lines 30-35: cursor 0, three empty buffers.
StreamerInit ==
    /\ byte_position = 0
    /\ buffers = [b \in 0..2 |-> <<>>]
    /\ current = 0
    /\ buf_bytes = 0

\* ---------------------------------------------------------------------------
\* Values of the control plane.

\* Assets and buffer size of the control specification (config.json).
AssetLen == 3
PlaybackFrames == 1
BytesPerFrame == 2

\* float('inf'): a duration that int(duration_seconds * 1000) cannot convert.
Inf == MaxDuration + 1000
\* The /play requests received: every duration of 0..MaxDuration ticks and
\* the infinite one; volumes in percent of full scale: 0.5, and 1.5, which
\* float() converts like any other number (network_controller.py:191).
PlayInputs ==
    { [duration |-> d, volume |-> IF d % 2 = 0 THEN 50 ELSE 150] : d \in 0..MaxDuration }
    \cup { [duration |-> Inf, volume |-> 50] }
\* Integer values of the /gain level parameter received: two levels of the
\* valid range 0..3 (one per gain line) and one on each side of it.
GainInputs == {-1, 1, 2, 4}

NoResponse   == [code |-> 0,   status |-> "none",    message |-> "none"]
PlaySuccess  == [code |-> 200, status |-> "success", message |-> "Play request set"]
Conflict     == [code |-> 409, status |-> "error",
                 message |-> "Audio already playing, request rejected"]
GainSuccess  == [code |-> 200, status |-> "success", message |-> "Gain level set"]
GainInvalid  == [code |-> 200, status |-> "error",   message |-> "Invalid gain level"]
GainNotANumber == [code |-> 200, status |-> "error", message |-> "Gain level must be a number (0-3)"]
ServerError  == [code |-> 500, status |-> "none",    message |-> "none"]

\* ---------------------------------------------------------------------------
\* Mailbox operations (network_controller.py).

\* A /play handler that stores the request without looking at audio_playing.
PostPlayNoCheck(playing, slot, req) ==
    [audio_playing |-> TRUE, play_request |-> <<req>>, response |-> PlaySuccess]

\* A /play handler that rejects but still overwrites the slot.
PostPlayOverwrite(playing, slot, req) ==
    IF playing
    THEN [audio_playing |-> TRUE, play_request |-> <<req>>, response |-> Conflict]
    ELSE [audio_playing |-> TRUE, play_request |-> <<req>>, response |-> PlaySuccess]

\* A /play handler that stores the request and leaves the flag as it is.
PostPlayNoFlag(playing, slot, req) ==
    IF playing
    THEN [audio_playing |-> playing, play_request |-> slot, response |-> Conflict]
    ELSE [audio_playing |-> playing, play_request |-> <<req>>, response |-> PlaySuccess]

\* handle_request, lines 194-213, the body of `with self.play_request_lock`.
PostPlay(playing, slot, req) ==
    IF playing
    THEN [audio_playing |-> playing, play_request |-> slot, response |-> Conflict]
    ELSE [audio_playing |-> TRUE, play_request |-> <<req>>, response |-> PlaySuccess]

\* A check_play_request that leaves the request in the slot.
CheckPlayRequestKeep(slot) == [request |-> slot, play_request |-> slot]

\* A check_play_request that hands over the request at full volume.
CheckPlayRequestFullVolume(slot) ==
    [request |-> IF slot = None THEN None ELSE <<[slot[1] EXCEPT !.volume = 100]>>,
     play_request |-> None]

\* check_play_request, lines 279-282.
CheckPlayRequest(slot) == [request |-> slot, play_request |-> None]

\* A /gain handler that keeps an unconsumed older level.
PostGainKeepOlder(slot, level) == IF slot = None THEN <<level>> ELSE slot

\* handle_request, lines 235-236.
PostGain(slot, level) == <<level>>

\* check_gain_request, lines 286-289.
CheckGainRequest(slot) == [request |-> slot, gain_request |-> None]

\* ---------------------------------------------------------------------------
\* HardwareController.set_gain, lines 74-77, on the two gain lines.
\* A set_gain that writes the lines before it checks the range.
SetGainWriteFirst(g0, g1, level) ==
    [raised |-> level < 0 \/ level > 3,
     amp_gain0 |-> level % 2, amp_gain1 |-> (level \div 2) % 2]

SetGain(g0, g1, level) ==
    IF level < 0 \/ level > 3
    THEN [raised |-> TRUE,  amp_gain0 |-> g0, amp_gain1 |-> g1]
    ELSE [raised |-> FALSE, amp_gain0 |-> level % 2, amp_gain1 |-> (level \div 2) % 2]

\* ---------------------------------------------------------------------------
\* Initial state of the control plane: WiFiController.__init__ (lines 24-31),
\* HardwareController.__init__ (output pins at their reset level) and main()
\* at the top of its loop.
ControlInit ==
    /\ audio_playing = FALSE
    /\ play_request = None
    /\ gain_request = None
    /\ play_request_lock = "free"
    /\ net_pc = "accept"
    /\ n_duration = 0 /\ n_volume = 0 /\ n_level = 0
    /\ response = NoResponse
    /\ pc = "gain_lock"
    /\ gain_level = None
    /\ request = None
    /\ i = 0
    /\ elapsed = 0
    /\ exc = None
    /\ dac_mute = 0 /\ amp_sd = 0 /\ amp_gain0 = 0 /\ amp_gain1 = 0
    /\ outstanding = 0
    /\ owed = 0
    /\ rejected = 0
    /\ last_accepted = None
    /\ last_posted = None
    /\ overwrote = FALSE
    /\ took = None
    /\ abort = "none"

\* WiFiController.__init__, lines 18-21: the default retry parameters.
DefaultMaxRetries == 10
DefaultInitialRetryDelay == 500
DefaultMaxRetryDelay == 30000
DefaultBackoffFactor == 2
DefaultNetworkConfig ==
    [credentials |-> TRUE,
     max_retries |-> DefaultMaxRetries,
     initial_retry_delay |-> DefaultInitialRetryDelay,
     max_retry_delay |-> DefaultMaxRetryDelay,
     backoff_factor |-> DefaultBackoffFactor]

\* No connection accepted (server_loop before line 313).
NoClient == [open |-> FALSE, request |-> "none", sent |-> 0, failed |-> 0]

\* WiFiController.__init__ lines 24-49 and server_loop before its first
\* connect_wifi call, for the configuration cfg.
ConnInit(cfg) ==
    /\ network_config = cfg
    /\ wifi_connected = FALSE
    /\ conn_pc = "disconnected"
    /\ retry_count = 0
    /\ retry_delay = cfg.initial_retry_delay
    /\ poll = 0
    /\ slept = <<>>
    /\ connect_calls = 0
    /\ wlan = "idle"
    /\ server_running = FALSE
    /\ sock = "none"
    /\ leds = [k \in 1..4 |-> FALSE]
    /\ client = NoClient
    /\ sessions = 0

\* No direct call made: the file is open (wav_file_player.py:26-29, main.py:34).
UnitInit ==
    /\ outcome = "none"
    /\ data_size = <<Len(data)>>
    /\ read_pos = 0 /\ read_size = 0
    /\ read_chunk = <<>>
    /\ raw = <<>> /\ buf = <<>>
    /\ vol_q15 = 0
    /\ gain_calls = <<>>
    /\ ConnInit(DefaultNetworkConfig)

Init ==
    /\ data = [j \in 1..AssetLen |-> j - 1]
    /\ frame_size = BytesPerFrame
    /\ StreamerInit
    /\ sizes = <<>>
    /\ served = <<>>
    /\ pulled = 0
    /\ ControlInit
    /\ UnitInit

\* ---------------------------------------------------------------------------
\* Network context: WiFiController.handle_request for /play and /gain.

\* Lines 174-191: a /play request with numeric parameters is received.
\* play_audio's duration_seconds=None (hardware_controller.py line 113): the
\* value of a duration that is absent, every given duration being >= 0 here.
NoDuration == -1
\* Line 190, `.get('duration', 5.0)`: the default duration, in ticks.
DefaultDuration == 5
\* Line 191, `.get('volume', 0.5)`: the default volume, in percent.
DefaultVolume == 50
\* dict.get(key, default) followed by float(): the parameter is absent
\* (None) or given (<<x>>, a number).
ParamOr(param, default) == IF param = None THEN default ELSE param[1]

\* A handler that stores the absence of the duration parameter.
NetAcceptPlayStoreAbsent(dp, vp) ==
    /\ net_pc = "accept"
    /\ n_duration' = ParamOr(dp, NoDuration)
    /\ n_volume' = ParamOr(vp, DefaultVolume)
    /\ response' = NoResponse
    /\ net_pc' = "play_lock"
    /\ UNCHANGED <<n_level, mailboxVars, audioVars, gpioVars, histVars, streamVars, streamHist, unitVars>>

\* Lines 188-191 with the parameters as they arrive: each of duration and
\* volume is given or absent, and an absent one gets its default.
NetAcceptPlayDefault(dp, vp) ==
    /\ net_pc = "accept"
    /\ n_duration' = ParamOr(dp, DefaultDuration)
    /\ n_volume' = ParamOr(vp, DefaultVolume)
    /\ response' = NoResponse
    /\ net_pc' = "play_lock"
    /\ UNCHANGED <<n_level, mailboxVars, audioVars, gpioVars, histVars, streamVars, streamHist, unitVars>>

NetAcceptPlay(d, v) ==
    /\ net_pc = "accept"
    /\ n_duration' = d
    /\ n_volume' = v
    /\ response' = NoResponse
    /\ net_pc' = "play_lock"
    /\ UNCHANGED <<n_level, mailboxVars, audioVars, gpioVars, histVars, streamVars, streamHist, unitVars>>

\* Lines 190-191 and 268-275: float() of a non-numeric parameter raises
\* ValueError; the handler answers with the bare 500 status line.
NetAcceptPlayBad ==
    /\ net_pc = "accept"
    /\ response' = ServerError
    /\ net_pc' = "close"
    /\ UNCHANGED <<n_duration, n_volume, n_level, mailboxVars, audioVars,
                   gpioVars, histVars, streamVars, streamHist, unitVars>>

\* Line 194: `with self.play_request_lock` acquires the lock.
NetPlayLock ==
    /\ net_pc = "play_lock"
    /\ play_request_lock = "free"
    /\ play_request_lock' = "net"
    /\ net_pc' = "play_cs"
    /\ UNCHANGED <<audio_playing, play_request, gain_request, n_duration, n_volume,
                   n_level, response, audioVars, gpioVars, histVars, streamVars, streamHist, unitVars>>

\* Lines 195-213 and 267-275: accept or reject under the lock, release it,
\* send the response and close the connection.
NetPlayPost ==
    /\ net_pc = "play_cs"
    /\ LET req == [duration |-> n_duration, volume |-> n_volume]
           r   == PostPlay(audio_playing, play_request, req)
       IN  /\ audio_playing' = r.audio_playing
           /\ play_request' = r.play_request
           /\ response' = r.response
           /\ IF r.response.code = 200
              THEN /\ outstanding' = outstanding + 1
                   /\ rejected' = 0
                   /\ last_accepted' = <<req>>
              ELSE /\ rejected' = Min(rejected + 1, 2)
                   /\ UNCHANGED <<outstanding, last_accepted>>
    /\ play_request_lock' = "free"
    /\ net_pc' = "close"
    /\ n_duration' = 0 /\ n_volume' = 0
    /\ UNCHANGED <<gain_request, n_level, audioVars, gpioVars, owed, last_posted, overwrote,
                   took, abort, streamVars, streamHist, unitVars>>

\* Lines 229-246: a /gain request with an integer level; a level outside
\* 0..3 is answered with an error body.
\* A /gain handler that stores the level without the range check.
NetAcceptGainNoCheck(l) ==
    /\ net_pc = "accept"
    /\ n_level' = l
    /\ response' = NoResponse
    /\ net_pc' = "gain_lock"
    /\ UNCHANGED <<n_duration, n_volume, mailboxVars, audioVars, gpioVars, histVars,
                   streamVars, streamHist, unitVars>>

NetAcceptGain(l) ==
    /\ net_pc = "accept"
    /\ IF 0 <= l /\ l <= 3
       THEN /\ n_level' = l
            /\ response' = NoResponse
            /\ net_pc' = "gain_lock"
       ELSE /\ response' = GainInvalid
            /\ net_pc' = "close"
            /\ UNCHANGED n_level
    /\ UNCHANGED <<n_duration, n_volume, mailboxVars, audioVars, gpioVars, histVars,
                   streamVars, streamHist, unitVars>>

\* Lines 232 and 247-251: int() of a non-integer level raises ValueError.
NetAcceptGainBad ==
    /\ net_pc = "accept"
    /\ response' = GainNotANumber
    /\ net_pc' = "close"
    /\ UNCHANGED <<n_duration, n_volume, n_level, mailboxVars, audioVars,
                   gpioVars, histVars, streamVars, streamHist, unitVars>>

\* Line 235: `with self.play_request_lock` acquires the lock.
NetGainLock ==
    /\ net_pc = "gain_lock"
    /\ play_request_lock = "free"
    /\ play_request_lock' = "net"
    /\ net_pc' = "gain_cs"
    /\ UNCHANGED <<audio_playing, play_request, gain_request, n_duration, n_volume,
                   n_level, response, audioVars, gpioVars, histVars, streamVars, streamHist, unitVars>>

\* Lines 236-241 and 267-275: store the level, release, respond, close.
NetGainPost ==
    /\ net_pc = "gain_cs"
    /\ gain_request' = PostGain(gain_request, n_level)
    /\ last_posted' = <<n_level>>
    /\ overwrote' = (gain_request # None /\ gain_request # <<n_level>>)
    /\ play_request_lock' = "free"
    /\ response' = GainSuccess
    /\ net_pc' = "close"
    /\ n_level' = 0
    /\ UNCHANGED <<audio_playing, play_request, n_duration, n_volume, audioVars, gpioVars,
                   outstanding, owed, rejected, last_accepted, took, abort,
                   streamVars, streamHist, unitVars>>

\* Lines 267 and 274-275: the response has been sent; close the connection
\* and return to accept.
NetClose ==
    /\ net_pc = "close"
    /\ response' = NoResponse
    /\ net_pc' = "accept"
    /\ UNCHANGED <<n_duration, n_volume, n_level, mailboxVars, audioVars, gpioVars,
                   histVars, streamVars, streamHist, unitVars>>

NetNext ==
    \/ \E q \in PlayInputs : NetAcceptPlay(q.duration, q.volume)
    \/ NetAcceptPlayBad
    \/ NetPlayLock
    \/ NetPlayPost
    \/ \E l \in GainInputs : NetAcceptGain(l)
    \/ NetAcceptGainBad
    \/ NetGainLock
    \/ NetGainPost
    \/ NetClose

\* ---------------------------------------------------------------------------
\* Audio context: main() lines 44-75 and HardwareController.play_audio.

SetStreamer(st) ==
    /\ byte_position' = st.byte_position
    /\ buffers' = st.buffers
    /\ current' = st.current
    /\ buf_bytes' = st.buf_bytes
    /\ UNCHANGED <<data, frame_size>>

\* generate_buffer left by an I/O error of its k-th file read (k = 0..2 the
\* reads of lines 65-67, k = 3 the read of line 76): the assignments made
\* before that read stay.
GenerateBufferRaise(st, d, fs, desired_frames, k) ==
    LET num_bytes == desired_frames * fs
    IN  IF st.buf_bytes # num_bytes /\ k < 3
        THEN [st EXCEPT !.buf_bytes = num_bytes,
                        !.buffers = [j \in 0..2 |->
                            IF j < k
                            THEN ReadChunk(d, (st.byte_position + j * num_bytes) % Len(d), num_bytes)
                            ELSE st.buffers[j]]]
        ELSE RefillAll(st, d, num_bytes)

\* main line 46, check_gain_request line 286: acquire the lock.
AudioGainLock ==
    /\ pc = "gain_lock"
    /\ play_request_lock = "free"
    /\ play_request_lock' = "audio"
    /\ pc' = "gain_cs"
    /\ UNCHANGED <<audio_playing, play_request, gain_request, netVars, gain_level, request,
                   i, elapsed, exc, gpioVars, histVars, streamVars, streamHist, unitVars>>

\* check_gain_request lines 287-289 and main line 47.
AudioGainTake ==
    /\ pc = "gain_cs"
    /\ LET r == CheckGainRequest(gain_request)
       IN  /\ gain_level' = r.request
           /\ gain_request' = r.gain_request
           /\ took' = IF r.request # None
                    THEN <<[level |-> last_posted[1], overwrote |-> overwrote]>>
                    ELSE None
           /\ pc' = IF r.request # None THEN "set_gain" ELSE "play_lock"
    /\ last_posted' = None
    /\ overwrote' = FALSE
    /\ play_request_lock' = "free"
    /\ UNCHANGED <<audio_playing, play_request, netVars, request, i, elapsed, exc, gpioVars,
                   outstanding, owed, rejected, last_accepted, abort, streamVars, streamHist, unitVars>>

\* main line 49: hw.set_gain(gain_level); its ValueError is not caught in main.
AudioSetGain ==
    /\ pc = "set_gain"
    /\ LET r == SetGain(amp_gain0, amp_gain1, gain_level[1])
       IN  /\ amp_gain0' = r.amp_gain0
           /\ amp_gain1' = r.amp_gain1
           /\ pc' = IF r.raised THEN "dead" ELSE "play_lock"
           /\ exc' = IF r.raised THEN <<"ValueError">> ELSE exc
    /\ gain_level' = None
    /\ took' = None
    /\ UNCHANGED <<mailboxVars, netVars, request, i, elapsed, dac_mute, amp_sd,
                   outstanding, owed, rejected, last_accepted, last_posted, overwrote, abort,
                   streamVars, streamHist, unitVars>>

\* main line 52, check_play_request line 279: acquire the lock.
AudioPlayLock ==
    /\ pc = "play_lock"
    /\ play_request_lock = "free"
    /\ play_request_lock' = "audio"
    /\ pc' = "play_cs"
    /\ UNCHANGED <<audio_playing, play_request, gain_request, netVars, gain_level, request,
                   i, elapsed, exc, gpioVars, histVars, streamVars, streamHist, unitVars>>

\* A main loop that tests the duration instead of the request: a request of
\* duration zero starts nothing.
AudioPlayTakeZeroAbsent ==
    /\ pc = "play_cs"
    /\ LET r == CheckPlayRequest(play_request)
           go == r.request # None /\ r.request[1].duration # 0
       IN  /\ request' = IF go THEN r.request ELSE None
           /\ play_request' = r.play_request
           /\ pc' = IF go THEN "play_audio" ELSE "gain_lock"
           /\ owed' = IF go THEN owed + 1 ELSE owed
           /\ abort' = IF go THEN "none" ELSE abort
    /\ play_request_lock' = "free"
    /\ UNCHANGED <<audio_playing, gain_request, netVars, gain_level, i, elapsed, exc,
                   gpioVars, outstanding, rejected, last_accepted, last_posted, overwrote, took,
                   streamVars, streamHist, unitVars>>

\* check_play_request lines 280-282 and main line 53.
AudioPlayTake ==
    /\ pc = "play_cs"
    /\ LET r == CheckPlayRequest(play_request)
       IN  /\ request' = r.request
           /\ play_request' = r.play_request
           /\ pc' = IF r.request # None THEN "play_audio" ELSE "gain_lock"
           /\ owed' = IF r.request # None THEN owed + 1 ELSE owed
           /\ abort' = IF r.request # None THEN "none" ELSE abort
    /\ play_request_lock' = "free"
    /\ UNCHANGED <<audio_playing, gain_request, netVars, gain_level, i, elapsed, exc,
                   gpioVars, outstanding, rejected, last_accepted, last_posted, overwrote, took,
                   streamVars, streamHist, unitVars>>

\* play_audio lines 123-138 and enable_audio line 59: unmute the DAC.
AudioEnableDac ==
    /\ pc = "play_audio"
    /\ dac_mute' = 1
    /\ pc' = "enable_amp"
    /\ UNCHANGED <<mailboxVars, netVars, gain_level, request, i, elapsed, exc,
                   amp_sd, amp_gain0, amp_gain1, histVars, streamVars, streamHist, unitVars>>

\* enable_audio line 60: enable the amplifier.
AudioEnableAmp ==
    /\ pc = "enable_amp"
    /\ amp_sd' = 1
    /\ pc' = "deadline"
    /\ UNCHANGED <<mailboxVars, netVars, gain_level, request, i, elapsed, exc,
                   dac_mute, amp_gain0, amp_gain1, histVars, streamVars, streamHist, unitVars>>

\* A play_audio that rewinds the streamer when a playback starts.
AudioDeadlineRewind ==
    /\ pc = "deadline"
    /\ IF request[1].duration = Inf
       THEN /\ exc' = <<"OverflowError">>
            /\ abort' = "convert"
            /\ pc' = "idle_lock"
            /\ UNCHANGED <<i, elapsed>>
       ELSE /\ elapsed' = 0
            /\ i' = 0
            /\ pc' = "prefill"
            /\ UNCHANGED <<exc, abort>>
    /\ byte_position' = 0
    /\ current' = 0
    /\ UNCHANGED <<mailboxVars, netVars, gain_level, request, gpioVars,
                   outstanding, owed, rejected, last_accepted, last_posted, overwrote, took,
                   data, frame_size, buffers, buf_bytes, streamHist, unitVars>>

\* play_audio lines 141-143: int(duration_seconds * 1000) raises OverflowError
\* for an infinite duration; the statement is outside the try block, so the
\* exception leaves play_audio at once.
AudioDeadline ==
    /\ pc = "deadline"
    /\ IF request[1].duration = Inf
       THEN /\ exc' = <<"OverflowError">>
            /\ abort' = "convert"
            /\ pc' = "idle_lock"
            /\ UNCHANGED <<i, elapsed>>
       ELSE /\ elapsed' = 0
            /\ i' = 0
            /\ pc' = "prefill"
            /\ UNCHANGED <<exc, abort>>
    /\ UNCHANGED <<mailboxVars, netVars, gain_level, request, gpioVars,
                   outstanding, owed, rejected, last_accepted, last_posted, overwrote, took,
                   streamVars, streamHist, unitVars>>

\* play_audio lines 146-154: one pre-fill iteration; the write returns at
\* once or after a tick.
AudioPrefill(dt) ==
    /\ pc = "prefill"
    /\ SetStreamer(GenerateBuffer(Streamer, data, frame_size, PlaybackFrames).st)
    /\ elapsed' = Min(elapsed + dt, MaxDuration)
    /\ i' = i + 1
    /\ pc' = IF i + 1 = 4 THEN "loop" ELSE "prefill"
    /\ pulled' = (pulled + 1) % Len(data)
    /\ UNCHANGED <<mailboxVars, netVars, gain_level, request, exc, gpioVars, histVars,
                   sizes, served, unitVars>>

\* Lines 146-154 are outside the try block: an exception raised by
\* generate_buffer (cause "pull"), by i2s.write (cause "write") or a
\* KeyboardInterrupt leaves play_audio without reaching disable_audio.
AudioPrefillRaise(cause, k) ==
    /\ pc = "prefill"
    /\ CASE cause = "pull" ->
                SetStreamer(GenerateBufferRaise(Streamer, data, frame_size, PlaybackFrames, k))
         [] cause = "write" ->
                SetStreamer(GenerateBuffer(Streamer, data, frame_size, PlaybackFrames).st)
         [] OTHER -> UNCHANGED streamVars
    /\ exc' = IF cause = "interrupt" THEN <<"KeyboardInterrupt">> ELSE <<"OSError">>
    /\ abort' = cause
    /\ pc' = "idle_lock"
    /\ pulled' = IF cause = "write" THEN (pulled + 1) % Len(data) ELSE pulled
    /\ UNCHANGED <<mailboxVars, netVars, gain_level, request, i, elapsed, gpioVars,
                   outstanding, owed, rejected, last_accepted, last_posted, overwrote, took,
                   sizes, served, unitVars>>

\* Lines 161-162, the loop condition: no duration, or the deadline not passed.
LoopRuns == request[1].duration = NoDuration \/ elapsed < request[1].duration

\* Lines 162-200: one iteration of the steady-state loop, entered while the
\* deadline has not passed; the blocking write takes a tick. Without a
\* duration the clock is not read.
AudioLoop ==
    /\ pc = "loop"
    /\ LoopRuns
    /\ SetStreamer(GenerateBuffer(Streamer, data, frame_size, PlaybackFrames).st)
    /\ elapsed' = IF request[1].duration = NoDuration THEN elapsed ELSE elapsed + 1
    /\ pulled' = (pulled + 1) % Len(data)
    /\ UNCHANGED <<mailboxVars, netVars, pc, gain_level, request, i, exc, gpioVars,
                   histVars, sizes, served, unitVars>>

\* Lines 202-207: an exception inside the loop is caught and logged, and the
\* finally clause runs.
AudioLoopRaise(cause, k) ==
    /\ pc = "loop"
    /\ LoopRuns
    /\ CASE cause = "pull" ->
                SetStreamer(GenerateBufferRaise(Streamer, data, frame_size, PlaybackFrames, k))
         [] cause = "write" ->
                SetStreamer(GenerateBuffer(Streamer, data, frame_size, PlaybackFrames).st)
         [] OTHER -> UNCHANGED streamVars
    /\ abort' = cause
    /\ pc' = "disable"
    /\ pulled' = IF cause = "write" THEN (pulled + 1) % Len(data) ELSE pulled
    /\ UNCHANGED <<mailboxVars, netVars, gain_level, request, i, elapsed, exc, gpioVars,
                   outstanding, owed, rejected, last_accepted, last_posted, overwrote, took,
                   sizes, served, unitVars>>

\* Lines 162-163 and 206: the deadline has passed, the loop ends.
AudioLoopDone ==
    /\ pc = "loop"
    /\ ~LoopRuns
    /\ abort' = "completed"
    /\ pc' = "disable"
    /\ UNCHANGED <<mailboxVars, netVars, gain_level, request, i, elapsed, exc, gpioVars,
                   outstanding, owed, rejected, last_accepted, last_posted, overwrote, took,
                   streamVars, streamHist, unitVars>>

\* Line 207 and disable_audio line 65: mute the DAC.
AudioDisableDac ==
    /\ pc = "disable"
    /\ dac_mute' = 0
    /\ pc' = "disable_amp"
    /\ UNCHANGED <<mailboxVars, netVars, gain_level, request, i, elapsed, exc,
                   amp_sd, amp_gain0, amp_gain1, histVars, streamVars, streamHist, unitVars>>

\* disable_audio line 66: shut the amplifier down; play_audio returns.
AudioDisableAmp ==
    /\ pc = "disable_amp"
    /\ amp_sd' = 0
    /\ pc' = "idle_lock"
    /\ UNCHANGED <<mailboxVars, netVars, gain_level, request, i, elapsed, exc,
                   dac_mute, amp_gain0, amp_gain1, histVars, streamVars, streamHist, unitVars>>

\* main lines 69-71: the finally clause acquires the lock.
AudioIdleLock ==
    /\ pc = "idle_lock"
    /\ play_request_lock = "free"
    /\ play_request_lock' = "audio"
    /\ pc' = "idle_cs"
    /\ UNCHANGED <<audio_playing, play_request, gain_request, netVars, gain_level, request,
                   i, elapsed, exc, gpioVars, histVars, streamVars, streamHist, unitVars>>

\* A finally clause that clears the flag only after a playback that returned.
AudioMarkIdleOnSuccess ==
    /\ pc = "idle_cs"
    /\ audio_playing' = IF exc = None THEN FALSE ELSE audio_playing
    /\ outstanding' = IF exc = None THEN outstanding - 1 ELSE outstanding
    /\ owed' = IF exc = None THEN owed - 1 ELSE owed
    /\ rejected' = IF exc = None THEN 0 ELSE rejected
    /\ last_accepted' = IF exc = None THEN None ELSE last_accepted
    /\ pc' = "idle_sleep"
    /\ UNCHANGED <<play_request, gain_request, play_request_lock, netVars, gain_level,
                   request, i, elapsed, exc, gpioVars, last_posted, overwrote,
                   took, abort, streamVars, streamHist, unitVars>>

\* main line 72: audio_playing = False, under the lock.
AudioMarkIdle ==
    /\ pc = "idle_cs"
    /\ audio_playing' = FALSE
    /\ outstanding' = outstanding - 1
    /\ owed' = owed - 1
    /\ rejected' = 0
    /\ last_accepted' = None
    /\ pc' = "idle_sleep"
    /\ UNCHANGED <<play_request, gain_request, play_request_lock, netVars, gain_level,
                   request, i, elapsed, exc, gpioVars, last_posted, overwrote,
                   took, abort, streamVars, streamHist, unitVars>>

\* A finally clause that keeps the lock when an exception is propagating.
AudioIdleReleaseLeak ==
    /\ pc = "idle_sleep"
    /\ play_request_lock' = IF exc = None THEN "free" ELSE "audio"
    /\ pc' = IF exc = None THEN "gain_lock" ELSE "dead"
    /\ request' = None
    /\ i' = 0
    /\ elapsed' = 0
    /\ abort' = IF exc = None THEN "none" ELSE abort
    /\ UNCHANGED <<audio_playing, play_request, gain_request, netVars, gain_level, exc,
                   gpioVars, outstanding, owed, rejected, last_accepted, last_posted,
                   overwrote, took, streamVars, streamHist, unitVars>>

\* main line 75 and the end of the with block: sleep 100 ms holding the
\* lock, release it; a pending exception then ends main().
AudioIdleRelease ==
    /\ pc = "idle_sleep"
    /\ play_request_lock' = "free"
    /\ pc' = IF exc = None THEN "gain_lock" ELSE "dead"
    /\ request' = None
    /\ i' = 0
    /\ elapsed' = 0
    /\ abort' = IF exc = None THEN "none" ELSE abort
    /\ UNCHANGED <<audio_playing, play_request, gain_request, netVars, gain_level, exc,
                   gpioVars, outstanding, owed, rejected, last_accepted, last_posted,
                   overwrote, took, streamVars, streamHist, unitVars>>

Causes == {"pull", "write", "interrupt"}

AudioNext ==
    \/ AudioGainLock
    \/ AudioGainTake
    \/ AudioSetGain
    \/ AudioPlayLock
    \/ AudioPlayTake
    \/ AudioEnableDac
    \/ AudioEnableAmp
    \/ AudioDeadline
    \/ \E dt \in {0, 1} : AudioPrefill(dt)
    \/ \E cause \in Causes, k \in 0..3 : AudioPrefillRaise(cause, k)
    \/ AudioLoop
    \/ \E cause \in Causes, k \in 0..3 : AudioLoopRaise(cause, k)
    \/ AudioLoopDone
    \/ AudioDisableDac
    \/ AudioDisableAmp
    \/ AudioIdleLock
    \/ AudioMarkIdle
    \/ AudioIdleRelease

Next == NetNext \/ AudioNext

Spec == Init /\ [][Next]_vars

\* ---------------------------------------------------------------------------
\* The same program with both execution contexts scheduled fairly: each
\* context runs on a core of its own (main.py line 23, _thread), so neither
\* is starved, and the audio context gets the lock whenever it keeps asking.
FairSpec == Spec /\ WF_vars(NetNext) /\ SF_vars(AudioNext)

\* ---------------------------------------------------------------------------
\* Positions of the audio context.

\* Between the take of a play request and the assignment that marks idle.
TakenPcs ==
    {"play_audio", "enable_amp", "deadline", "prefill", "loop", "disable",
     "disable_amp", "idle_lock", "idle_cs"}
\* Inside play_audio, from enable_audio to the end of disable_audio.
EnabledPcs == {"enable_amp", "deadline", "prefill", "loop", "disable", "disable_amp"}
\* After play_audio has returned or raised.
AfterPlayPcs == {"idle_lock", "idle_cs", "idle_sleep", "dead"}

C2_FirstRequestKept ==
    audio_playing =>
        /\ last_accepted # None
        /\ \/ play_request = last_accepted
           \/ play_request = None /\ request = last_accepted

FiniteDurations == n_duration # Inf

\* C3: provided every requested duration is finite, after every accepted
\* /play playing eventually becomes false again, for the first accepted
\* request as for every later one, whether the playback completes or aborts.
C3_NoPermanentLockout == ([]FiniteDurations) => (audio_playing ~> ~audio_playing)

\* A mark-idle is owed exactly from the take of a request to the assignment
\* of main line 72: not at the top of the loop, and not once main() has ended.
C4_OwedExactlyWhileHandled ==
    /\ owed \in {0, 1}
    /\ owed = 1 <=> pc \in TakenPcs

\* C4: the audio context clears playing exactly once per play request taken,
\* completed or aborted, holding the lock, after play_audio returned or raised.
C4_MarkIdleExactlyOnce ==
    /\ []C4_OwedExactlyWhileHandled
    /\ [][ (audio_playing /\ ~audio_playing') =>
              /\ play_request_lock = "audio"
              /\ pc = "idle_cs"
              /\ owed = 1 /\ owed' = 0
         ]_vars

\* Witness: an aborted playback whose exception is propagating, marked idle once.
C4_Witness ==
    /\ pc = "idle_sleep" /\ exc # None
    /\ owed = 0 /\ ~audio_playing /\ play_request_lock = "audio"

C6_DeliveredAtMostOnce ==
    /\ [](owed <= outstanding)
    /\ [][ (pc = "play_cs" /\ pc' # "play_cs") =>
              /\ play_request_lock = "audio"
              /\ request' = play_request
              /\ play_request' = None
         ]_vars

\* Witness: the request was taken and the slot is empty.
C6_Witness ==
    /\ pc = "play_audio" /\ request # None /\ request = last_accepted
    /\ play_request = None

\* The gain slot holds the level posted last since the last take, and
\* set_gain is about to be called with the level that was newest at the take.
C7_SlotHoldsNewest ==
    /\ gain_request = last_posted
    /\ pc = "set_gain" => took # None /\ gain_level = <<took[1].level>>

\* C7: the gain slot is an overwrite mailbox: it holds the most recent level
\* posted since the last take, the take returns that level and empties the
\* slot, and the gain lines are only ever driven from the level taken.
C7_GainOverwrite ==
    /\ []C7_SlotHoldsNewest
    /\ [][ /\ (pc = "gain_cs" /\ pc' # "gain_cs") =>
                gain_level' = gain_request /\ gain_request' = None
           /\ (<<amp_gain0, amp_gain1>>' # <<amp_gain0, amp_gain1>>) =>
                /\ pc = "set_gain"
                /\ amp_gain0' = took[1].level % 2
                /\ amp_gain1' = (took[1].level \div 2) % 2
         ]_vars

\* Witness: a take after two different levels were posted, the slot now empty.
C7_Witness ==
    /\ pc = "set_gain" /\ took # None /\ took[1].overwrote
    /\ gain_request = None

\* C8: play_audio disables the outputs on every exit path once it has
\* enabled them, so DAC and amplifier are off whenever the audio context is
\* not between enable_audio and the end of disable_audio.
C8_OutputsOffOutsidePlay ==
    pc \notin EnabledPcs => amp_sd = 0 /\ dac_mute = 0

\* C9: a bus write failure aborts the playback: no further buffer is pulled
\* or written, the outputs are disabled, the system is marked idle and the
\* audio context goes on polling the mailbox.
C9_WriteFailureAborts ==
    abort = "write" =>
        /\ pc \notin {"prefill", "loop"}
        /\ pc \in AfterPlayPcs => amp_sd = 0 /\ dac_mute = 0
        /\ pc = "idle_sleep" => ~audio_playing
        /\ pc # "dead"

\* ---------------------------------------------------------------------------
\* Streamer specification: a fresh RawFilePlayer on an asset of 1..MaxLen
\* bytes, driven by generate_buffer calls of 1..MaxFrames frames.

\* The asset whose byte j is j (all bytes distinct), and one with a repeated byte.
Assets ==
    { [j \in 1..len |-> j - 1] : len \in 1..MaxLen } \cup
    { [j \in 1..len |-> (j - 1) % 2] : len \in 2..MaxLen }

InitStream ==
    /\ data \in Assets
    /\ frame_size \in {1, 2}
    /\ StreamerInit
    /\ sizes = <<>>
    /\ served = <<>>
    /\ pulled = 0
    /\ ControlInit
    /\ UnitInit

StreamCall(frames) ==
    /\ Len(sizes) < MaxCalls
    /\ LET r == GenerateBuffer(Streamer, data, frame_size, frames)
       IN  /\ byte_position' = r.st.byte_position
           /\ buffers' = r.st.buffers
           /\ current' = r.st.current
           /\ buf_bytes' = r.st.buf_bytes
           /\ served' = served \o r.mv
           /\ sizes' = Append(sizes, frames * frame_size)
    /\ pulled' = (pulled + 1) % Len(data)
    /\ UNCHANGED <<data, frame_size, controlVars, unitVars>>

NextStream == \E frames \in 1..MaxFrames : StreamCall(frames)

SpecStream == InitStream /\ [][NextStream]_vars

\* ---------------------------------------------------------------------------
\* Every generate_buffer call so far asked for the same byte size.
FixedSize == \A c \in 1..Len(sizes) : sizes[c] = sizes[1]

\* C10: with one fixed buffer size N <= L, the concatenation of the buffers
\* returned by generate_buffer is the file read cyclically from offset 0:
\* byte j (from 0) of the concatenation is file byte j mod L.
C10_CyclicRoundTrip ==
    (sizes # <<>> /\ FixedSize /\ sizes[1] <= Len(data)) =>
        /\ Len(served) = Len(sizes) * sizes[1]
        /\ \A j \in 1..Len(served) : served[j] = data[((j - 1) % Len(data)) + 1]

\* Witness: a size that does not divide L, served past an end-of-file wrap.
C10_Witness ==
    /\ sizes # <<>> /\ FixedSize
    /\ sizes[1] <= Len(data)
    /\ Len(data) % sizes[1] # 0
    /\ Len(served) > 2 * Len(data)
    /\ \A j \in 1..Len(data) : data[j] = j - 1

\* ---------------------------------------------------------------------------
\* The bytes of file d from offset off, cyclically, n of them.
CyclicBytes(d, off, n) == [j \in 1..n |-> d[((off + j - 1) % Len(d)) + 1]]

\* The buffer returned by the generate_buffer call just made.
LastServed == SubSeq(served, Len(served) - sizes[Len(sizes)] + 1, Len(served))

\* One step of generate_buffer with the fixed size N, as call number k.
KthCallStep ==
    LET N == sizes'[1]
        L == Len(data)
        k == Len(sizes')
    IN  /\ byte_position = ((k - 1) * N) % L
        /\ LastServed' = CyclicBytes(data, (k - 1) * N, N)
        /\ buffers'[(current + 2) % 3] = CyclicBytes(data, byte_position + 2 * N, N)
        /\ byte_position' = (byte_position + N) % L
        /\ current' = (current + 1) % 3

\* The asset of ten blocks and buffers of one block (48000 and 4800 bytes in
\* units of 4800): the first three calls and the fourth.
TenBlockAsset == Len(data) = 10 /\ \A j \in 1..10 : data[j] = j - 1
FirstFourCalls ==
    TenBlockAsset =>
        /\ sizes = <<1>> => served = <<0>>
        /\ sizes = <<1, 1>> => served = <<0, 1>>
        /\ sizes = <<1, 1, 1>> => served = <<0, 1, 2>> /\ byte_position = 3
        /\ sizes = <<1, 1, 1, 1>> =>
               served = <<0, 1, 2, 3>> /\ buffers[2] = <<5>> /\ byte_position = 4

\* C11: the k-th generate_buffer call with fixed size N is made with the
\* cursor at (k-1)*N mod L, returns the bytes at that offset, refills slot
\* (current+2) mod 3 from offset (cursor+2N) mod L, then advances the cursor
\* by N mod L and current by 1 mod 3; on an asset of ten buffers the calls 1
\* to 3 return offsets 0, N, 2N and the fourth, made at 3N, returns offset 3N
\* and refills from 5N.
C11_KthCall ==
    /\ [][(sizes' # sizes /\ FixedSize') => KthCallStep]_vars
    /\ []FirstFourCalls

\* Witness: the fourth call on the ten-block asset has been made.
C11_Witness ==
    /\ TenBlockAsset
    /\ sizes = <<1, 1, 1, 1>>
    /\ current = 1

\* ---------------------------------------------------------------------------
\* Read specification: RawFilePlayer.__init__ on a file of 0..MaxLen bytes,
\* then direct calls of _read_chunk with any offset and size.

\* Largest offset and largest size passed to _read_chunk.
MaxPos == 11
MaxSize == 7

\* RawFilePlayer.__init__, lines 26-35: data_size is what tell() says at the
\* end of the file; nothing looks at its value.
PlayerInit(d) ==
    [data_size |-> <<Len(d)>>,
     st |-> [byte_position |-> 0, buffers |-> [b \in 0..2 |-> <<>>],
             current |-> 0, buf_bytes |-> 0]]

InitRead ==
    /\ data \in Assets \cup {<<>>}
    /\ frame_size = BytesPerFrame
    /\ StreamerInit
    /\ sizes = <<>>
    /\ served = <<>>
    /\ pulled = 0
    /\ ControlInit
    /\ outcome = "none"
    /\ data_size = None
    /\ read_pos = 0 /\ read_size = 0
    /\ read_chunk = <<>>
    /\ raw = <<>> /\ buf = <<>>
    /\ vol_q15 = 0
    /\ gain_calls = <<>>
    /\ ConnInit(DefaultNetworkConfig)

\* main.py line 34: file_player = RawFilePlayer("my_sound.raw", config).
Construct ==
    /\ data_size = None
    /\ outcome = "none"
    /\ LET r == PlayerInit(data)
       IN  /\ data_size' = r.data_size
           /\ SetStreamer(r.st)
           /\ outcome' = "constructed"
    /\ UNCHANGED <<read_pos, read_size, read_chunk, scaleVars, gain_calls, connVars, streamHist,
                   controlVars>>

\* _read_chunk(p, s) on a constructed player: line 42 divides by data_size.
ReadCall(p, s) ==
    /\ data_size # None
    /\ read_pos' = p
    /\ read_size' = s
    /\ IF data_size[1] = 0
       THEN outcome' = "ZeroDivisionError" /\ read_chunk' = <<>>
       ELSE outcome' = "read" /\ read_chunk' = ReadChunk(data, p, s)
    /\ UNCHANGED <<data_size, scaleVars, gain_calls, connVars, streamVars, streamHist, controlVars>>

NextRead ==
    \/ Construct
    \/ \E p \in 0..MaxPos, s \in 0..MaxSize : ReadCall(p, s)

SpecRead == InitRead /\ [][NextRead]_vars

\* C12: on a file of at least one byte _read_chunk returns exactly `size`
\* bytes for every offset and size: byte j of the result is file byte
\* (pos + j) mod L, so the offset is taken modulo L and a read past
\* end-of-file continues from byte 0 as many times as needed.
C12_ReadExactlySize ==
    (outcome = "read" /\ Len(data) >= 1) =>
        /\ Len(read_chunk) = read_size
        /\ \A j \in 1..read_size :
               read_chunk[j] = data[((read_pos + j - 1) % Len(data)) + 1]

\* Witness: a read from an offset past the end that wraps more than twice.
C12_Witness ==
    /\ outcome = "read"
    /\ Len(data) = 3 /\ \A j \in 1..3 : data[j] = j - 1
    /\ read_pos > Len(data) /\ read_pos % Len(data) # 0
    /\ read_size > 2 * Len(data)
    /\ Len(read_chunk) = read_size

\* C13: an empty PCM file is rejected at construction: no player with
\* data_size = 0 exists, and no _read_chunk call is made on one.
C13_EmptyFileRejected ==
    /\ data_size # <<0>>
    /\ outcome # "ZeroDivisionError"

\* ---------------------------------------------------------------------------
\* _viper_scale16 (hardware_controller.py lines 8-33) and the pull-and-scale
\* step of play_audio (lines 148-151, 168-171).

\* Full scale in Q15: the volume at which play_audio skips the scaler.
FullVolume == 32767

\* s * q15 in a viper int, a signed 32-bit machine word, for a 16-bit s: the
\* product modulo 2^32, computed on 16-bit halves of q15.
Mul32(s, q15) ==
    LET qL == q15 % 65536
        qH == q15 \div 65536
        A  == s * qL
        hs == (((A \div 65536) + s * qH + 32768) % 65536) - 32768
    IN  hs * 65536 + (A % 65536)

\* Lines 25-28.
Clamp16(s) == IF s < -32768 THEN -32768 ELSE IF s > 32767 THEN 32767 ELSE s

\* A scaler that divides toward zero instead of shifting.
Scale16SampleTrunc(lo, hi, q15) ==
    LET word == lo + hi * 256
        s0   == IF word >= 32768 THEN word - 65536 ELSE word
        p    == Mul32(s0, q15)
        s1   == IF p < 0 THEN -((-p) \div 32768) ELSE p \div 32768
        v    == Clamp16(s1) % 65536
    IN  <<v % 256, (v \div 256) % 256>>

\* Lines 14-32 on one sample: the two bytes written back.
Scale16Sample(lo, hi, q15) ==
    LET word == lo + hi * 256
        s0   == IF word >= 32768 THEN word - 65536 ELSE word
        p    == Mul32(s0, q15)
        s1   == p \div 32768
        v    == Clamp16(s1) % 65536
    IN  <<v % 256, (v \div 256) % 256>>

\* _viper_scale16(bytes, n, q15): the first n samples of the buffer scaled.
ViperScale16(bytes, n, q15) ==
    [k \in 1..Len(bytes) |->
        IF k <= 2 * n
        THEN LET lo == bytes[2 * ((k - 1) \div 2) + 1]
                 hi == bytes[2 * ((k - 1) \div 2) + 2]
             IN  Scale16Sample(lo, hi, q15)[((k - 1) % 2) + 1]
        ELSE bytes[k]]

\* A pull-and-scale step without the full-volume skip.
ScaleForWriteAlways(bytes, q15) == ViperScale16(bytes, Len(bytes) \div 2, q15)

\* play_audio lines 149-151: buf = bytearray(raw), scaled unless vol_q15 is
\* full scale.
ScaleForWrite(bytes, q15) ==
    IF q15 # FullVolume
    THEN ViperScale16(bytes, Len(bytes) \div 2, q15)
    ELSE bytes

\* Number of samples in the buffers of the scaler specification.
MaxSamples == 2

\* Sample values and volumes tried: the extremes, their neighbours, the
\* values around zero and mid-scale.
SampleInputs == {-32768, -32767, -16385, -2, -1, 0, 1, 2, 3, 16384, 32766, 32767}
VolumeInputs == {0, 1, 16384, 32766, FullVolume}

\* The little-endian bytes of a signed 16-bit sample, and the sample at
\* index k (from 1) of a byte buffer.
Bytes16(s) == <<(s % 65536) % 256, (s % 65536) \div 256>>
Sample16(bytes, k) ==
    LET word == bytes[2 * k - 1] + 256 * bytes[2 * k]
    IN  IF word >= 32768 THEN word - 65536 ELSE word

RECURSIVE Encode16(_)
Encode16(samples) ==
    IF samples = <<>> THEN <<>>
    ELSE Bytes16(Head(samples)) \o Encode16(Tail(samples))

SampleBuffers ==
    UNION { { Encode16(ss) : ss \in [1..n -> SampleInputs] } : n \in 1..MaxSamples }

InitScale ==
    /\ data = [j \in 1..AssetLen |-> j - 1]
    /\ frame_size = BytesPerFrame
    /\ StreamerInit
    /\ sizes = <<>>
    /\ served = <<>>
    /\ pulled = 0
    /\ ControlInit
    /\ outcome = "none"
    /\ data_size = <<Len(data)>>
    /\ read_pos = 0 /\ read_size = 0
    /\ read_chunk = <<>>
    /\ raw \in SampleBuffers
    /\ buf = raw
    /\ vol_q15 \in VolumeInputs
    /\ gain_calls = <<>>
    /\ ConnInit(DefaultNetworkConfig)

\* A direct call _viper_scale16(buf, len(buf) // 2, vol_q15).
ScaleCall ==
    /\ outcome = "none"
    /\ buf' = ViperScale16(buf, Len(buf) \div 2, vol_q15)
    /\ outcome' = "scaled"
    /\ UNCHANGED <<raw, vol_q15, readVars, gain_calls, connVars, streamVars, streamHist, controlVars>>

\* The step of play_audio that prepares buf for i2s.write.
PlayScale ==
    /\ outcome = "none"
    /\ buf' = ScaleForWrite(buf, vol_q15)
    /\ outcome' = "to_write"
    /\ UNCHANGED <<raw, vol_q15, readVars, gain_calls, connVars, streamVars, streamHist, controlVars>>

NextScale == ScaleCall \/ PlayScale

SpecScale == InitScale /\ [][NextScale]_vars

\* ---------------------------------------------------------------------------
\* The sample indices of the buffer, and an integer y being x / 32768 rounded
\* to the nearest (a tie either way), or rounded down.
SampleIndices == 1..(Len(raw) \div 2)
IsNearest(y, x) == 2 * (x - 32768 * y) \in -32768..32768
IsFloor(y, x) == 32768 * y <= x /\ x < 32768 * (y + 1)
\* The exact product s * q fits a signed 32-bit word (stated by division).
Fits32(s, q) ==
    \/ q = 0 \/ s = 0
    \/ (s > 0 /\ s <= 2147483647 \div q)
    \/ (s < 0 /\ -s <= 2147483647 \div q)

\* The statement that _viper_scale16 writes clamp(round(s*q/32768)) for
\* every sample, without 32-bit wrap-around.
C14_RoundedScale ==
    outcome = "scaled" =>
        \A k \in SampleIndices :
            LET s == Sample16(raw, k)
                y == Sample16(buf, k)
            IN  /\ Fits32(s, vol_q15) /\ Mul32(s, vol_q15) = s * vol_q15
                /\ y = Clamp16(y)
                /\ IsNearest(y, s * vol_q15)

\* C14 (amended): for every signed 16-bit sample s and every q in
\* [0, 32767], _viper_scale16 writes s*q/32768 rounded down (the arithmetic
\* shift), which needs no clamping, and the product s*q fits 32 bits.
C14_FlooredScale ==
    outcome = "scaled" =>
        /\ Len(buf) = Len(raw)
        /\ \A k \in SampleIndices :
            LET s == Sample16(raw, k)
                y == Sample16(buf, k)
            IN  /\ Fits32(s, vol_q15) /\ Mul32(s, vol_q15) = s * vol_q15
                /\ y = Clamp16(y)
                /\ IsFloor(y, s * vol_q15)

\* Witness: the extreme s = -32768, q = 32767 and a sample rounded down
\* where rounding to nearest goes up.
C14_Witness ==
    /\ outcome = "scaled"
    /\ vol_q15 = 32767
    /\ Len(raw) = 4
    /\ Sample16(raw, 1) = -32768 /\ Sample16(buf, 1) = -32767
    /\ Sample16(raw, 2) = 1 /\ Sample16(buf, 2) = 0

\* The statement that _viper_scale16 called with 32767 is the identity.
C15_ScalerIdentity ==
    (outcome = "scaled" /\ vol_q15 = FullVolume) => buf = raw

\* C15 (amended): at vol_q15 = 32767 play_audio skips the scaler, so the
\* buffer it writes is the buffer pulled; _viper_scale16 itself called with
\* 32767 keeps the samples -32767..0, lowers a positive sample by one and
\* turns -32768 into -32767.
C15_FullVolume ==
    vol_q15 = FullVolume =>
        /\ outcome = "to_write" => buf = raw
        /\ outcome = "scaled" =>
              \A k \in SampleIndices :
                  LET s == Sample16(raw, k)
                  IN  Sample16(buf, k) =
                          IF s > 0 THEN s - 1 ELSE IF s = -32768 THEN -32767 ELSE s

\* Witness: a buffer with a positive sample and -32768 prepared at full volume.
C15_Witness ==
    /\ outcome = "to_write"
    /\ vol_q15 = FullVolume
    /\ Len(raw) = 4
    /\ Sample16(raw, 1) = 32767 /\ Sample16(raw, 2) = -32768
    /\ buf = raw

\* ---------------------------------------------------------------------------
\* set_gain specification: direct calls of HardwareController.set_gain with
\* levels inside and outside 0..3, on the lines as __init__ leaves them.

\* The gain_level arguments tried.
SetGainLevels == -1..4

SetGainCall(level) ==
    /\ Len(gain_calls) < MaxCalls
    /\ LET r == SetGain(amp_gain0, amp_gain1, level)
       IN  /\ amp_gain0' = r.amp_gain0
           /\ amp_gain1' = r.amp_gain1
           /\ outcome' = IF r.raised THEN "ValueError" ELSE "gain_set"
    /\ gain_calls' = Append(gain_calls, level)
    /\ UNCHANGED <<readVars, scaleVars, connVars, streamVars, streamHist, mailboxVars, netVars,
                   audioVars, dac_mute, amp_sd, histVars>>

NextSetGain == \E level \in SetGainLevels : SetGainCall(level)

SpecSetGain == Init /\ [][NextSetGain]_vars

\* The values of the two gain lines after the calls: those of the last level
\* within 0..3, or the reset values when there is none.
RECURSIVE LinesAfter(_)
LinesAfter(calls) ==
    IF calls = <<>> THEN <<0, 0>>
    ELSE LET level == calls[Len(calls)]
         IN  IF level \in 0..3
             THEN <<IF level \in {1, 3} THEN 1 ELSE 0, IF level \in {2, 3} THEN 1 ELSE 0>>
             ELSE LinesAfter(SubSeq(calls, 1, Len(calls) - 1))

\* C16: set_gain called with a level outside 0..3 fails with the
\* out-of-range error and leaves both gain lines as they were before the
\* call: the lines always show the last level that was within 0..3.
C16_RejectKeepsLines ==
    /\ [][\A level \in SetGainLevels :
            (gain_calls' = Append(gain_calls, level) /\ level \notin 0..3) =>
                /\ outcome' = "ValueError"
                /\ amp_gain0' = amp_gain0 /\ amp_gain1' = amp_gain1]_vars
    /\ [](gain_calls # <<>> =>
            /\ <<amp_gain0, amp_gain1>> = LinesAfter(gain_calls)
            /\ outcome = "ValueError" <=> gain_calls[Len(gain_calls)] \notin 0..3)

\* Witness: level 3 set both lines, then a level above and one below the
\* range were rejected.
C16_Witness ==
    /\ gain_calls = <<3, 4, -1>>
    /\ outcome = "ValueError"
    /\ amp_gain0 = 1 /\ amp_gain1 = 1

\* ---------------------------------------------------------------------------
\* C17: the gain level is validated at the network boundary: a /gain stores
\* into the gain slot only a level within 0..3, a non-integer or
\* out-of-range level gets an error body and leaves the slot unchanged; so
\* the gain slot is always empty or within 0..3 and main never calls
\* set_gain with a level out of range (set_gain never raises).
C17_GainValidatedAtBoundary ==
    /\ [](/\ gain_request = None \/ gain_request[1] \in 0..3
          /\ gain_level = None \/ gain_level[1] \in 0..3
          /\ exc # <<"ValueError">>)
    /\ [][/\ gain_request' \notin {gain_request, None} =>
                (net_pc = "gain_cs" /\ gain_request' = <<n_level>> /\ n_level \in 0..3)
          /\ (response' # response /\ response' \in {GainInvalid, GainNotANumber}) =>
                gain_request' = gain_request
          /\ \A l \in GainInputs \ (0..3) : NetAcceptGain(l) => response' = GainInvalid
          /\ NetAcceptGainBad => response' = GainNotANumber]_vars

\* Witness: an out-of-range /gain was answered with the error body while the
\* slot kept the valid level stored before it.
C17_Witness ==
    /\ response = GainInvalid
    /\ gain_request = <<2>>
    /\ net_pc = "close"

\* ---------------------------------------------------------------------------
\* C18: every play request stored in the play slot, and every request handed
\* to play_audio, has a volume within [0, 1] (0..100 percent).
C18_VolumeInRange ==
    /\ play_request # None => play_request[1].volume \in 0..100
    /\ request # None => request[1].volume \in 0..100

\* ---------------------------------------------------------------------------
\* C19: the mailbox lock is held only around reads and writes of the mailbox
\* fields: a context holding it is at one of its field-access steps, never
\* in a sleep, a network call or a bus write.
C19_LockOnlyForFields ==
    /\ play_request_lock = "audio" => pc \in {"gain_cs", "play_cs", "idle_cs"}
    /\ play_request_lock = "net" => net_pc \in {"play_cs", "gain_cs"}

\* ---------------------------------------------------------------------------
\* Connection specification: server_loop calling WiFiController.connect_wifi
\* (network_controller.py lines 72-123 and 294-303) while the link may or may
\* not come up.

\* Line 94: the number of status polls of one attempt.
PollCount == 10

\* The retry parameters tried: the defaults, a cap reached by the first
\* delay, an initial delay above the cap, a single attempt, no credentials.
NetworkConfigs ==
    { DefaultNetworkConfig,
      [DefaultNetworkConfig EXCEPT !.max_retries = 4, !.max_retry_delay = 600],
      [DefaultNetworkConfig EXCEPT !.max_retries = 3, !.initial_retry_delay = 1000,
                                   !.max_retry_delay = 300, !.backoff_factor = 3],
      [DefaultNetworkConfig EXCEPT !.max_retries = 1],
      [DefaultNetworkConfig EXCEPT !.credentials = FALSE] }

\* A backoff step without the cap.
NextDelayNoCap(delay, cfg) == delay * cfg.backoff_factor

\* Line 112.
NextDelay(delay, cfg) == Min(delay * cfg.backoff_factor, cfg.max_retry_delay)

InitConn ==
    /\ data = [j \in 1..AssetLen |-> j - 1]
    /\ frame_size = BytesPerFrame
    /\ StreamerInit
    /\ sizes = <<>>
    /\ served = <<>>
    /\ pulled = 0
    /\ ControlInit
    /\ outcome = "none"
    /\ data_size = <<Len(data)>>
    /\ read_pos = 0 /\ read_size = 0
    /\ read_chunk = <<>>
    /\ raw = <<>> /\ buf = <<>>
    /\ vol_q15 = 0
    /\ gain_calls = <<>>
    /\ \E cfg \in NetworkConfigs : ConnInit(cfg)

ConnUnchanged ==
    UNCHANGED <<network_config, outcome, readVars, scaleVars, gain_calls,
                streamVars, streamHist, controlVars, serverVars>>

\* A connect_wifi that goes on from the counters of the previous call.
ConnStartNoReset ==
    /\ conn_pc \in {"disconnected", "failed"}
    /\ conn_pc' = IF network_config.credentials THEN "loop" ELSE "failed"
    /\ poll' = 0
    /\ wifi_connected' = FALSE
    /\ UNCHANGED <<retry_count, retry_delay, slept, connect_calls, wlan>>
    /\ ConnUnchanged

\* server_loop lines 295 and 303, connect_wifi lines 75-82.
ConnStart ==
    /\ conn_pc \in {"disconnected", "failed"}
    /\ IF network_config.credentials
       THEN /\ conn_pc' = "loop"
            /\ retry_count' = 0
            /\ retry_delay' = network_config.initial_retry_delay
            /\ slept' = <<>>
            /\ connect_calls' = 0
       ELSE /\ conn_pc' = "failed"
            /\ UNCHANGED <<retry_count, retry_delay, slept, connect_calls>>
    /\ poll' = 0
    /\ wifi_connected' = FALSE
    /\ UNCHANGED wlan
    /\ ConnUnchanged

\* Lines 84-91: the loop test, and wlan.connect() on the first attempt only.
ConnAttempt ==
    /\ conn_pc = "loop"
    /\ conn_pc' = IF retry_count < network_config.max_retries THEN "poll" ELSE "failed"
    /\ IF retry_count < network_config.max_retries /\ retry_count = 0
       THEN /\ connect_calls' = connect_calls + 1
            /\ wlan' = IF wlan = "up" THEN "up" ELSE "joining"
       ELSE UNCHANGED <<connect_calls, wlan>>
    /\ poll' = 0
    /\ UNCHANGED <<wifi_connected, retry_count, retry_delay, slept>>
    /\ ConnUnchanged

\* Lines 86-88 and 119-123: wlan.connect() raises; connect_wifi returns False.
ConnAttemptRaise ==
    /\ conn_pc = "loop"
    /\ retry_count = 0
    /\ retry_count < network_config.max_retries
    /\ conn_pc' = "failed"
    /\ UNCHANGED <<wifi_connected, retry_count, retry_delay, poll, slept, connect_calls, wlan>>
    /\ ConnUnchanged

\* Lines 94-101: isconnected() is false; sleep 800 ms and poll again.
ConnPoll ==
    /\ conn_pc = "poll"
    /\ poll < PollCount
    /\ wlan # "up"
    /\ poll' = poll + 1
    /\ UNCHANGED <<wifi_connected, conn_pc, retry_count, retry_delay, slept, connect_calls, wlan>>
    /\ ConnUnchanged

\* Lines 96-100: isconnected() is true; connect_wifi returns True.
ConnSuccess ==
    /\ conn_pc = "poll"
    /\ poll < PollCount
    /\ wlan = "up"
    /\ wifi_connected' = TRUE
    /\ conn_pc' = "connected"
    /\ UNCHANGED <<retry_count, retry_delay, poll, slept, connect_calls, wlan>>
    /\ ConnUnchanged

\* Lines 104-112: the attempt failed; give up at max_retries, else compute
\* the next delay.
ConnFail ==
    /\ conn_pc = "poll"
    /\ poll = PollCount
    /\ retry_count' = retry_count + 1
    /\ IF retry_count + 1 >= network_config.max_retries
       THEN /\ conn_pc' = "failed"
            /\ UNCHANGED retry_delay
       ELSE /\ conn_pc' = "sleep"
            /\ retry_delay' = NextDelay(retry_delay, network_config)
    /\ UNCHANGED <<wifi_connected, poll, slept, connect_calls, wlan>>
    /\ ConnUnchanged

\* Line 116: time.sleep_ms(retry_delay), then back to the loop test.
ConnSleep ==
    /\ conn_pc = "sleep"
    /\ slept' = Append(slept, retry_delay)
    /\ conn_pc' = "loop"
    /\ UNCHANGED <<wifi_connected, retry_count, retry_delay, poll, connect_calls, wlan>>
    /\ ConnUnchanged

\* The access point: an association requested by wlan.connect() completes,
\* after which wlan.isconnected() (lines 96 and 327) returns True.
WlanUp ==
    /\ wlan = "joining"
    /\ wlan' = "up"
    /\ UNCHANGED <<wifi_connected, conn_pc, retry_count, retry_delay, poll, slept, connect_calls>>
    /\ ConnUnchanged

\* The access point: the link is lost; wlan.isconnected() returns False.
WlanDown ==
    /\ wlan = "up"
    /\ wlan' = "joining"
    /\ UNCHANGED <<wifi_connected, conn_pc, retry_count, retry_delay, poll, slept, connect_calls>>
    /\ ConnUnchanged

NextConn ==
    \/ WlanUp
    \/ WlanDown
    \/ ConnStart
    \/ ConnAttempt
    \/ ConnAttemptRaise
    \/ ConnPoll
    \/ ConnSuccess
    \/ ConnFail
    \/ ConnSleep

SpecConn == InitConn /\ [][NextConn]_vars

\* delay_k of the backoff sequence: delay_0 is the configured initial delay
\* and delay_{k+1} = min(delay_k * factor, max_delay).
RECURSIVE BackoffDelay(_, _)
BackoffDelay(cfg, k) ==
    IF k = 0 THEN cfg.initial_retry_delay
    ELSE LET d == BackoffDelay(cfg, k - 1) * cfg.backoff_factor
         IN  IF d < cfg.max_retry_delay THEN d ELSE cfg.max_retry_delay

\* C20: within one connect_wifi call the retry delay follows
\* delay_{k+1} = min(delay_k * factor, max_delay) from delay_0 = the initial
\* delay: the sleep after the k-th consecutive failure lasts exactly delay_k,
\* one sleep per failure that is followed by another attempt, and no slept
\* delay exceeds max_delay.
C20_BackoffSequence ==
    /\ \A k \in 1..Len(slept) :
          /\ slept[k] = BackoffDelay(network_config, k)
          /\ slept[k] <= network_config.max_retry_delay
    /\ conn_pc \in {"loop", "poll"} => Len(slept) = retry_count
    /\ conn_pc = "sleep" =>
          /\ Len(slept) = retry_count - 1
          /\ retry_delay = BackoffDelay(network_config, retry_count)
    /\ Len(slept) < network_config.max_retries

\* Witness: with the default parameters the delays slept reached the cap
\* after doubling from 2 * 500 ms, and the next attempt is polling.
C20_Witness ==
    /\ network_config = DefaultNetworkConfig
    /\ conn_pc = "poll"
    /\ Len(slept) = 7
    /\ slept[1] = 1000 /\ slept[5] = 16000 /\ slept[6] = 30000 /\ slept[7] = 30000

\* ---------------------------------------------------------------------------
\* C27: after every generate_buffer call, with N the buffer size in use, slot
\* current holds the N file bytes at the cursor (cyclic) and slot
\* (current+1) mod 3 the N bytes at cursor+N; the refill made inside a call
\* leaves the slot it returned as returned; 0 <= cursor < L and current is
\* 0, 1 or 2 in every state.
C27_SlotsReady ==
    /\ [](/\ byte_position \in 0..(Len(data) - 1)
          /\ current \in 0..2
          /\ sizes # <<>> =>
                /\ buf_bytes = sizes[Len(sizes)]
                /\ buffers[current] = CyclicBytes(data, byte_position, buf_bytes)
                /\ buffers[(current + 1) % 3] =
                       CyclicBytes(data, byte_position + buf_bytes, buf_bytes))
    /\ [][sizes' # sizes => buffers'[(current' + 2) % 3] = LastServed']_vars

\* Witness: steady state at one size, after the cursor wrapped.
C27_Witness ==
    /\ Len(sizes) >= 4 /\ FixedSize
    /\ Len(data) = 5 /\ \A j \in 1..5 : data[j] = j - 1
    /\ sizes[1] = 2
    /\ byte_position = 3
    /\ buffers[current] = <<3, 4>>
    /\ buffers[(current + 1) % 3] = <<0, 1>>

\* The number of bytes served before the last call.
ServedBefore == Len(served) - sizes[Len(sizes)]

\* C28: a generate_buffer call whose byte size differs from the previous
\* call's refills the three slots from cursor, cursor+size and
\* cursor+2*size (mod L), serves slot 0 (current becomes 0, then 1), and the
\* stream stays contiguous: the buffer returned starts right after the last
\* byte served, so the bytes served are the file read cyclically, whatever
\* the sizes.
C28_SizeChange ==
    /\ [][(sizes' # sizes /\ sizes # <<>> /\ sizes'[Len(sizes')] # sizes[Len(sizes)]) =>
            LET N == sizes'[Len(sizes')]
            IN  /\ \A b \in 0..2 :
                      buffers'[b] = CyclicBytes(data, byte_position + b * N, N)
                /\ current' = 1
                /\ LastServed' = buffers'[0]
                /\ byte_position = Len(served) % Len(data)]_vars
    /\ [](\A j \in 1..Len(served) : served[j] = data[((j - 1) % Len(data)) + 1])

\* Witness: a size change made when current was not 0 and after a wrap.
C28_Witness ==
    /\ Len(sizes) = 3
    /\ sizes[1] = sizes[2] /\ sizes[3] # sizes[2]
    /\ Len(data) = 3 /\ \A j \in 1..3 : data[j] = j - 1
    /\ ServedBefore > Len(data)
    /\ current = 1

\* ---------------------------------------------------------------------------
\* C29: every attempt of a connect_wifi call, from index 0 to
\* max_retries - 1, calls wlan.connect() before it polls the link status:
\* while attempt number retry_count is polling, retry_count + 1 association
\* requests have been made in this call.
C29_ConnectEveryAttempt ==
    conn_pc = "poll" => connect_calls = retry_count + 1

\* ---------------------------------------------------------------------------
\* The network context as a whole: WiFiController.server_loop with
\* connect_wifi, start_server and handle_request.  The audio context does not
\* run in this specification.

\* The successful start_server calls counted.
MaxSessions == 2

\* The retry parameters of the server specification: two attempts per
\* connect_wifi call, and a configuration without credentials.
ServerConfigs ==
    { [DefaultNetworkConfig EXCEPT !.max_retries = 2],
      [DefaultNetworkConfig EXCEPT !.credentials = FALSE] }

\* What the client sends on an accepted connection: the four endpoints with
\* parameters that convert, /play, /gain and /led with a parameter that does
\* not, a request line that does not split in three, a method other than
\* GET, an unknown path, nothing, and nothing within the 3 s timeout.
RequestKinds ==
    {"play", "play_bad", "gain", "gain_bad", "led", "led_bad", "status",
     "malformed", "non_get", "unknown", "empty", "recv_error"}

\* Values of the /led num parameter received: all LEDs, one LED, none.
LedInputs == {0, 3, 5}

\* The /play and /gain parameters received in the server specification: the
\* finite durations, one level in range and one below it.
ServerPlayInputs == { r \in PlayInputs : r.duration # Inf }
ServerGainInputs == { l \in GainInputs : l < 2 }

\* Lines 153 and 166-168, 180-181: the error bodies of parse_request.
ParseErrorNonGet  == [code |-> 200, status |-> "error",
                      message |-> "Only GET requests are supported"]
ParseErrorInvalid == [code |-> 200, status |-> "error", message |-> "Invalid request format"]
\* Lines 262-264.
UnknownEndpoint   == [code |-> 200, status |-> "error", message |-> "Unknown endpoint"]
\* Lines 220-227.
LedSuccess        == [code |-> 200, status |-> "success", message |-> "LED set"]
LedInvalid        == [code |-> 200, status |-> "error", message |-> "Invalid LED number"]

\* Lines 253-260: the /status body.
StatusResponse(connected, running) ==
    [code |-> 200, status |-> "success",
     message |-> IF connected
                 THEN IF running THEN "wifi_connected=true,server_running=true,ip"
                                 ELSE "wifi_connected=true,server_running=false,ip"
                 ELSE IF running THEN "wifi_connected=false,server_running=true,Not connected"
                                 ELSE "wifi_connected=false,server_running=false,Not connected"]

\* set_led, lines 51-57: index led_num - 1 of the list, so that 0 is LED 4.
SetLed(l, led_num, state) ==
    IF 0 <= led_num /\ led_num <= 4
    THEN [l EXCEPT ![IF led_num = 0 THEN 4 ELSE led_num] = state]
    ELSE l

\* set_all_leds, lines 59-62.
SetAllLeds(state) == [k \in 1..4 |-> state]

InitServer ==
    /\ data = [j \in 1..AssetLen |-> j - 1]
    /\ frame_size = BytesPerFrame
    /\ StreamerInit
    /\ sizes = <<>>
    /\ served = <<>>
    /\ pulled = 0
    /\ ControlInit
    /\ outcome = "none"
    /\ data_size = <<Len(data)>>
    /\ read_pos = 0 /\ read_size = 0
    /\ read_chunk = <<>>
    /\ raw = <<>> /\ buf = <<>>
    /\ vol_q15 = 0
    /\ gain_calls = <<>>
    /\ \E cfg \in ServerConfigs : ConnInit(cfg)

\* What a step of server_loop outside handle_request leaves alone.
SrvUnchanged ==
    UNCHANGED <<network_config, retry_count, retry_delay, poll, slept, connect_calls, wlan,
                outcome, readVars, scaleVars, gain_calls, streamVars, streamHist,
                mailboxVars, audioVars, gpioVars, histVars, n_duration, n_volume, n_level>>

\* Lines 298-300: connect_wifi returned False; all LEDs on.
SrvLedsOn ==
    /\ conn_pc = "failed"
    /\ leds' = SetAllLeds(TRUE)
    /\ conn_pc' = "wait"
    /\ UNCHANGED <<wifi_connected, server_running, sock, client, sessions, net_pc, response>>
    /\ SrvUnchanged

\* Lines 301-303: all LEDs off, then connect_wifi again.
SrvLedsOff ==
    /\ conn_pc = "wait"
    /\ leds' = SetAllLeds(FALSE)
    /\ conn_pc' = "disconnected"
    /\ UNCHANGED <<wifi_connected, server_running, sock, client, sessions, net_pc, response>>
    /\ SrvUnchanged

\* Lines 305-306 and start_server lines 125-140: the listening socket is
\* created, bound and put in listen state.
SrvStartServer ==
    /\ conn_pc = "connected"
    /\ wifi_connected /\ ~server_running
    /\ sock' = "listening"
    /\ server_running' = TRUE
    /\ sessions' = Min(sessions + 1, MaxSessions)
    /\ conn_pc' = "accept"
    /\ UNCHANGED <<wifi_connected, leds, client, net_pc, response>>
    /\ SrvUnchanged

\* start_server lines 133-143: bind() or listen() raises on the new socket;
\* start_server returns False and server_loop comes back to line 305.
SrvStartServerFail ==
    /\ conn_pc = "connected"
    /\ wifi_connected /\ ~server_running
    /\ sock' = "unbound"
    /\ UNCHANGED <<wifi_connected, server_running, conn_pc, leds, client, sessions,
                   net_pc, response>>
    /\ SrvUnchanged

\* Lines 311-313: accept() returns a connection; 315-316 call handle_request
\* on it.  kind is what the client is going to send.
SrvAccept(kind) ==
    /\ conn_pc = "accept"
    /\ client' = [open |-> TRUE, request |-> kind, sent |-> 0, failed |-> 0]
    /\ conn_pc' = "handle"
    /\ UNCHANGED <<wifi_connected, server_running, sock, leds, sessions, net_pc, response>>
    /\ SrvUnchanged

\* Lines 313 and 317-319: accept() times out after 1 s.
SrvAcceptTimeout ==
    /\ conn_pc = "accept"
    /\ conn_pc' = "blink"
    /\ UNCHANGED <<wifi_connected, server_running, sock, leds, client, sessions,
                   net_pc, response>>
    /\ SrvUnchanged

\* Lines 311 and 335-337: settimeout() raises something caught by the outer
\* handler, which clears server_running and leaves the socket as it is.
SrvServerError ==
    /\ conn_pc = "accept"
    /\ server_running' = FALSE
    /\ conn_pc' = "connected"
    /\ UNCHANGED <<wifi_connected, sock, leds, client, sessions, net_pc, response>>
    /\ SrvUnchanged

\* What a step of handle_request that touches neither the mailbox nor the
\* connection state leaves alone.
HandlerUnchanged ==
    UNCHANGED <<network_config, wifi_connected, conn_pc, retry_count, retry_delay, poll, slept,
                connect_calls, wlan, server_running, sock, sessions,
                outcome, readVars, scaleVars, gain_calls, streamVars, streamHist,
                mailboxVars, audioVars, gpioVars, histVars, n_duration, n_volume, n_level>>

\* The handler is at its dispatch, lines 174-186, with a request of this kind.
Dispatch(kind) ==
    /\ conn_pc = "handle"
    /\ net_pc = "accept"
    /\ client.open
    /\ client.request = kind

\* Lines 175-176 and 274-275: recv() returned nothing; return without a
\* response.
SrvEmpty ==
    /\ Dispatch("empty")
    /\ net_pc' = "sent"
    /\ UNCHANGED <<response, leds, client>>
    /\ HandlerUnchanged

\* Lines 174 and 268-273: recv() raises (the 3 s timeout); the handler
\* answers with the bare 500 status line.
SrvRecvRaise ==
    /\ Dispatch("recv_error")
    /\ response' = ServerError
    /\ net_pc' = "close"
    /\ UNCHANGED <<leds, client>>
    /\ HandlerUnchanged

\* Lines 179, 185-186 and parse_request: a request line that does not
\* split in three, a method other than GET; lines 262-264: an unknown path.
SrvProtocolError ==
    /\ \/ Dispatch("malformed") /\ response' = ParseErrorInvalid
       \/ Dispatch("non_get") /\ response' = ParseErrorNonGet
       \/ Dispatch("unknown") /\ response' = UnknownEndpoint
    /\ net_pc' = "close"
    /\ UNCHANGED <<leds, client>>
    /\ HandlerUnchanged

\* Lines 215-227: /led with an integer num.
SrvLed(led_num, state) ==
    /\ Dispatch("led")
    /\ IF led_num = 0
       THEN leds' = SetAllLeds(state) /\ response' = LedSuccess
       ELSE IF 1 <= led_num /\ led_num <= 4
            THEN leds' = SetLed(leds, led_num, state) /\ response' = LedSuccess
            ELSE leds' = leds /\ response' = LedInvalid
    /\ net_pc' = "close"
    /\ UNCHANGED client
    /\ HandlerUnchanged

\* Lines 217 and 268-273: int() of a non-integer num raises ValueError.
SrvLedBad ==
    /\ Dispatch("led_bad")
    /\ response' = ServerError
    /\ net_pc' = "close"
    /\ UNCHANGED <<leds, client>>
    /\ HandlerUnchanged

\* A /status handler that clears the flag it reports.
SrvStatusClearing ==
    /\ Dispatch("status")
    /\ response' = StatusResponse(wifi_connected, server_running)
    /\ net_pc' = "close"
    /\ server_running' = FALSE
    /\ UNCHANGED <<leds, client>>
    /\ UNCHANGED <<network_config, wifi_connected, conn_pc, retry_count, retry_delay, poll, slept,
                   connect_calls, wlan, sock, sessions,
                   outcome, readVars, scaleVars, gain_calls, streamVars, streamHist,
                   mailboxVars, audioVars, gpioVars, histVars, n_duration, n_volume, n_level>>

\* Lines 253-260: /status.
SrvStatus ==
    /\ Dispatch("status")
    /\ response' = StatusResponse(wifi_connected, server_running)
    /\ net_pc' = "close"
    /\ UNCHANGED <<leds, client>>
    /\ HandlerUnchanged

\* A handler that sends its response twice.
SrvSendTwice ==
    /\ conn_pc = "handle"
    /\ net_pc = "close"
    /\ client' = [client EXCEPT !.sent = client.sent + 2]
    /\ net_pc' = "sent"
    /\ UNCHANGED <<response, leds>>
    /\ HandlerUnchanged

\* Line 267, or the send of lines 270-271 when the response is the bare 500
\* status line: the response is sent on the connection.
SrvSend ==
    /\ conn_pc = "handle"
    /\ net_pc = "close"
    /\ client' = [client EXCEPT !.sent = client.sent + 1]
    /\ net_pc' = "sent"
    /\ UNCHANGED <<response, leds>>
    /\ HandlerUnchanged

\* Lines 267-273: send() raises.  After line 267 the handler tries the bare
\* 500 status line; when that send raises too nothing more is tried.
SrvSendRaise ==
    /\ conn_pc = "handle"
    /\ net_pc = "close"
    /\ IF response # ServerError
       THEN response' = ServerError /\ net_pc' = "close"
       ELSE response' = NoResponse /\ net_pc' = "sent"
    /\ client' = [client EXCEPT !.failed = client.failed + 1]
    /\ UNCHANGED leds
    /\ HandlerUnchanged

\* Lines 274-275: client_sock.close(); handle_request returns to line 321.
SrvClose ==
    /\ conn_pc = "handle"
    /\ net_pc = "sent"
    /\ client' = NoClient
    /\ response' = NoResponse
    /\ net_pc' = "accept"
    /\ conn_pc' = "blink"
    /\ UNCHANGED <<wifi_connected, server_running, sock, leds, sessions>>
    /\ SrvUnchanged

\* Line 322: set_led(3, True).
SrvBlinkOn ==
    /\ conn_pc = "blink"
    /\ leds' = SetLed(leds, 3, TRUE)
    /\ conn_pc' = "blink_on"
    /\ UNCHANGED <<wifi_connected, server_running, sock, client, sessions, net_pc, response>>
    /\ SrvUnchanged

\* Lines 323-324: set_led(3, False) after 50 ms.
SrvBlinkOff ==
    /\ conn_pc = "blink_on"
    /\ leds' = SetLed(leds, 3, FALSE)
    /\ conn_pc' = "check"
    /\ UNCHANGED <<wifi_connected, server_running, sock, client, sessions, net_pc, response>>
    /\ SrvUnchanged

\* Line 327: wlan.isconnected() is true; lines 339-341 and back to accept.
SrvLinkOk ==
    /\ conn_pc = "check"
    /\ wlan = "up"
    /\ conn_pc' = "accept"
    /\ UNCHANGED <<wifi_connected, server_running, sock, leds, client, sessions,
                   net_pc, response>>
    /\ SrvUnchanged

\* A liveness check that clears wifi_connected and leaves server_running set.
SrvLinkLostKeepRunning ==
    /\ conn_pc = "check"
    /\ wlan # "up"
    /\ wifi_connected' = FALSE
    /\ sock' = "closed"
    /\ conn_pc' = "disconnected"
    /\ UNCHANGED <<server_running, leds, client, sessions, net_pc, response>>
    /\ SrvUnchanged

\* A liveness check that clears the flags and keeps the socket listening.
SrvLinkLostKeepSocket ==
    /\ conn_pc = "check"
    /\ wlan # "up"
    /\ wifi_connected' = FALSE
    /\ server_running' = FALSE
    /\ conn_pc' = "disconnected"
    /\ UNCHANGED <<sock, leds, client, sessions, net_pc, response>>
    /\ SrvUnchanged

\* Lines 327-334: wlan.isconnected() is false; both flags are cleared and
\* the listening socket is closed.
SrvLinkLost ==
    /\ conn_pc = "check"
    /\ wlan # "up"
    /\ wifi_connected' = FALSE
    /\ server_running' = FALSE
    /\ sock' = "closed"
    /\ conn_pc' = "disconnected"
    /\ UNCHANGED <<leds, client, sessions, net_pc, response>>
    /\ SrvUnchanged

\* handle_request for /play and /gain, on the accepted connection.
SrvMailbox ==
    \/ \E r \in ServerPlayInputs : Dispatch("play") /\ NetAcceptPlay(r.duration, r.volume)
    \/ Dispatch("play_bad") /\ NetAcceptPlayBad
    \/ \E l \in ServerGainInputs : Dispatch("gain") /\ NetAcceptGain(l)
    \/ Dispatch("gain_bad") /\ NetAcceptGainBad
    \/ conn_pc = "handle" /\ NetPlayLock
    \/ conn_pc = "handle" /\ NetPlayPost
    \/ conn_pc = "handle" /\ NetGainLock
    \/ conn_pc = "handle" /\ NetGainPost

\* connect_wifi as server_loop calls it, lines 295 and 303.
SrvConnect ==
    \/ conn_pc = "disconnected" /\ ConnStart
    \/ ConnAttempt
    \/ ConnAttemptRaise
    \/ ConnPoll
    \/ ConnSuccess
    \/ ConnFail
    \/ ConnSleep

\* The steps of the network context.
SrvStep ==
    \/ SrvConnect
    \/ SrvLedsOn
    \/ SrvLedsOff
    \/ SrvStartServer
    \/ SrvStartServerFail
    \/ \E kind \in RequestKinds : SrvAccept(kind)
    \/ SrvAcceptTimeout
    \/ SrvServerError
    \/ SrvMailbox
    \/ SrvEmpty
    \/ SrvRecvRaise
    \/ SrvProtocolError
    \/ \E n \in LedInputs, st \in BOOLEAN : SrvLed(n, st)
    \/ SrvLedBad
    \/ SrvStatus
    \/ SrvSend
    \/ SrvSendRaise
    \/ SrvClose
    \/ SrvBlinkOn
    \/ SrvBlinkOff
    \/ SrvLinkOk
    \/ SrvLinkLost

NextServer ==
    \/ WlanUp
    \/ WlanDown
    \/ SrvStep

SpecServer == InitServer /\ [][NextServer]_vars

\* Connection management alone: the steps of the network context when every
\* client asks for /status, which leaves the mailbox as it is.
LinkStep ==
    \/ SrvConnect
    \/ SrvLedsOn
    \/ SrvLedsOff
    \/ SrvStartServer
    \/ SrvStartServerFail
    \/ SrvAccept("status")
    \/ SrvAcceptTimeout
    \/ SrvServerError
    \/ SrvStatus
    \/ SrvSend
    \/ SrvSendRaise
    \/ SrvClose
    \/ SrvBlinkOn
    \/ SrvBlinkOff
    \/ SrvLinkOk
    \/ SrvLinkLost

NextLink ==
    \/ WlanUp
    \/ WlanDown
    \/ LinkStep

SpecLink == InitServer /\ [][NextLink]_vars

\* The network thread keeps running (server_loop is an infinite loop whose
\* blocking calls all have timeouts); wlan.connect() does not raise on every
\* call, bind() does not fail on every call and settimeout() does not raise
\* on every call.
FairSpecLink ==
    /\ SpecLink
    /\ WF_vars(LinkStep)
    /\ SF_vars(ConnAttempt)
    /\ SF_vars(SrvStartServer)
    /\ SF_vars(SrvAcceptTimeout \/ SrvAccept("status"))

C23_ExactlyOneResponse ==
    [][(client.open /\ ~client'.open /\ client.failed = 0) => client.sent = 1]_vars

\* C23, amended: an accepted connection is handled to completion before the
\* server is back at accept, it is closed on every path out of the handler,
\* and at most one response is sent on it: exactly one when a request was
\* received or recv() raised and no send() raised, none when the request is
\* empty, none when both the response and the 500 line failed to send.
C23_HandledToCompletion ==
    /\ [](conn_pc = "accept" => ~client.open /\ net_pc = "accept" /\ response = NoResponse)
    /\ [](client.open <=> conn_pc = "handle")
    /\ [][(client.open /\ ~client'.open) =>
            /\ net_pc = "sent"
            /\ client.sent <= 1
            /\ client.request = "empty" => client.sent = 0 /\ client.failed = 0
            /\ (client.request # "empty" /\ client.failed = 0) => client.sent = 1
            /\ client.failed > 0 =>
                  client.sent = (IF response = NoResponse THEN 0 ELSE 1)]_vars

\* Witness: an empty request is about to be closed without a response, on a
\* server that accepted a /play before.
C23_Witness ==
    /\ client.open /\ client.request = "empty"
    /\ net_pc = "sent"
    /\ client.sent = 0
    /\ audio_playing

\* The requests that are protocol errors by their kind.
ErrorKinds == {"malformed", "non_get", "unknown", "play_bad", "gain_bad", "led_bad"}

\* C24: a protocol error (a malformed request line, a method other than
\* GET, an unknown path, a parameter of /play, /gain or /led that is not a
\* number or is out of range) gets a response with a JSON body of status
\* "error" and a message, and leaves the play slot, the gain slot and
\* playing as they are, so that no out-of-range volume is in the play slot.
C24_ProtocolErrorBody ==
    /\ (client.open /\ net_pc = "close" /\ client.failed = 0 /\ client.request \in ErrorKinds) =>
          /\ response.status = "error"
          /\ response.message # "none"
    /\ play_request # None => play_request[1].volume \in 0..100

\* C25: while a /status request is being handled, from its dispatch to the
\* close of its connection, the play slot, the gain slot, playing,
\* wifi_connected, server_running, the listening socket, the LED outputs and
\* the GPIO lines of the amplifier and the DAC do not change, and the
\* response reports the two flags as they are.
C25_StatusNoSideEffect ==
    /\ [][(client.open /\ client.request = "status") =>
            UNCHANGED <<play_request, gain_request, audio_playing, wifi_connected,
                        server_running, sock, leds, gpioVars>>]_vars
    /\ []((client.open /\ client.request = "status" /\ net_pc = "close" /\ client.failed = 0) =>
            response = StatusResponse(wifi_connected, server_running))

\* Witness: the /status response has been sent while a play request, a gain
\* request and lit LEDs are pending.
C25_Witness ==
    /\ client.open /\ client.request = "status"
    /\ net_pc = "sent" /\ client.sent = 1
    /\ response = StatusResponse(TRUE, TRUE)
    /\ play_request # None
    /\ gain_request # None
    /\ leds = [k \in 1..4 |-> k # 3]

\* ---------------------------------------------------------------------------
\* C26: every playback, whatever its requested duration, has pulled and
\* written four pre-fill buffers when it is at the steady-state loop, and
\* when it has left play_audio without a failure of the streamer or the bus
\* and without an interrupt.
C26_FourBeforeLoop ==
    /\ pc = "loop" => i = 4
    /\ (pc \in {"idle_lock", "idle_cs", "idle_sleep"} /\ abort \notin Causes) => i = 4

\* ---------------------------------------------------------------------------
\* C30: the gain slot is polled before the play slot in every main-loop
\* iteration, no gain is applied while a playback is running, and, with
\* finite durations and both contexts scheduled fairly, a gain request in
\* the slot is eventually taken by the audio context to be applied.
C30_GainEventuallyApplied ==
    /\ [](pc \in TakenPcs => gain_level = None)
    /\ ([]FiniteDurations) => ((gain_request # None) ~> (gain_request = None))

\* ---------------------------------------------------------------------------
\* C31: at start the DAC is unmuted before the amplifier is enabled and at
\* stop the amplifier is shut down before the DAC is muted, so the amplifier
\* is never enabled (amp_sd = 1) while the DAC is muted (dac_mute = 0).
C31_AmpOnlyWhileUnmuted ==
    amp_sd = 1 => dac_mute = 1

\* A play request of duration zero.
ZeroRequest(r) == r # None /\ r[1].duration = 0

\* C32: a play request of duration zero is a request: taken from the slot
\* (playing being true) it starts play_audio, which enables the outputs,
\* pulls the four pre-fill buffers, runs no loop iteration, disables the
\* outputs when no pull, write or interrupt failed, and main then marks
\* idle; polling an empty slot starts nothing and leaves playing, the GPIO
\* lines and the streamer as they are.
C32_ZeroIsNotAbsent ==
    /\ [][(pc = "play_cs" /\ pc' # "play_cs") =>
            IF play_request = None
            THEN /\ pc' = "gain_lock" /\ request' = None
                 /\ UNCHANGED <<audio_playing, gpioVars, streamVars>>
            ELSE /\ pc' = "play_audio" /\ request' = play_request
                 /\ audio_playing /\ play_request' = None]_vars
    /\ [][(pc = "loop" /\ ZeroRequest(request)) =>
            (pc' \in {"loop", "disable"} /\ UNCHANGED streamVars)]_vars
    /\ []((ZeroRequest(request) /\ pc \in {"prefill", "loop"}) => (amp_sd = 1 /\ dac_mute = 1))
    /\ []((ZeroRequest(request) /\ abort = "completed" /\ pc \in AfterPlayPcs) =>
            (i = 4 /\ amp_sd = 0 /\ dac_mute = 0))
    /\ []((ZeroRequest(request) /\ pc = "idle_sleep") => ~audio_playing)

\* Witness: the playback of a request of duration zero has completed and
\* main has marked idle.
C32_Witness ==
    /\ ZeroRequest(request)
    /\ pc = "idle_sleep"
    /\ abort = "completed"
    /\ ~audio_playing
    /\ i = 4 /\ elapsed = 0
    /\ amp_sd = 0 /\ dac_mute = 0

\* ---------------------------------------------------------------------------
\* C33: in every state, under every interleaving of the two contexts, a
\* request in the play slot implies playing; and playing is cleared only
\* while the slot is empty.
C33_PendingImpliesPlaying ==
    /\ [](play_request # None => audio_playing)
    /\ [][(audio_playing /\ ~audio_playing') =>
            (play_request = None /\ play_request' = None)]_vars

\* Witness: a request waits in the slot while the audio context holds the
\* lock to poll it and the handler of a /gain waits for the lock.
C33_Witness ==
    /\ play_request # None /\ audio_playing
    /\ pc = "play_cs" /\ play_request_lock = "audio"
    /\ net_pc = "gain_lock"

\* ---------------------------------------------------------------------------
\* C34: an accepted /play stays in the slot as posted until the audio
\* context takes it (no other step changes a non-empty slot, and a rejected
\* /play changes nothing), and the request the audio context holds from the
\* take to mark-idle, whose duration and volume go to play_audio, is the
\* accepted one; one request at a time, so in acceptance order.
C34_DeliveredAsPosted ==
    /\ [](play_request # None => play_request = last_accepted)
    /\ []((request # None /\ pc \in TakenPcs) => request = last_accepted)
    /\ [][(play_request # None /\ play_request' # play_request) =>
            /\ pc = "play_cs" /\ play_request_lock = "audio"
            /\ request' = play_request
            /\ play_request' = None]_vars
    /\ [][(pc = "play_cs" /\ pc' = "play_audio") => request' = last_accepted]_vars

\* Witness: the accepted request, with its volume of 1.5, is at the duration
\* conversion of play_audio after two later /play requests were rejected.
C34_Witness ==
    /\ pc = "deadline"
    /\ request = last_accepted
    /\ request[1].volume = 150
    /\ rejected = 2

\* ---------------------------------------------------------------------------
\* The two contexts around the lock: one /play and one /gain request value,
\* and the interrupt as the exception raised during a playback.
LockNetNext ==
    \/ NetAcceptPlay(1, 150)
    \/ NetPlayLock
    \/ NetPlayPost
    \/ NetAcceptGain(1)
    \/ NetGainLock
    \/ NetGainPost
    \/ NetClose

LockAudioNext ==
    \/ AudioGainLock
    \/ AudioGainTake
    \/ AudioSetGain
    \/ AudioPlayLock
    \/ AudioPlayTake
    \/ AudioEnableDac
    \/ AudioEnableAmp
    \/ AudioDeadline
    \/ \E dt \in {0, 1} : AudioPrefill(dt)
    \/ AudioPrefillRaise("interrupt", 0)
    \/ AudioLoop
    \/ AudioLoopRaise("interrupt", 0)
    \/ AudioLoopDone
    \/ AudioDisableDac
    \/ AudioDisableAmp
    \/ AudioIdleLock
    \/ AudioMarkIdle
    \/ AudioIdleRelease

SpecLock == Init /\ [][LockNetNext \/ LockAudioNext]_vars

\* Both contexts scheduled fairly (a core each), and the network context,
\* spinning on the lock, gets it when it is free again and again.
FairLockSpec ==
    /\ SpecLock
    /\ WF_vars(LockNetNext)
    /\ SF_vars(LockAudioNext)
    /\ SF_vars(NetPlayLock \/ NetGainLock)

\* Where each context waits for the lock and where it holds it.
NetWaitPcs == {"play_lock", "gain_lock"}
NetHoldPcs == {"play_cs", "gain_cs"}
AudioWaitPcs == {"gain_lock", "play_lock", "idle_lock"}
AudioHoldPcs == {"gain_cs", "play_cs", "idle_cs", "idle_sleep"}

\* C35: the mailbox lock is held by a context exactly while that context is
\* inside one of its `with` blocks, so never asked for by the context that
\* holds it; every acquisition is followed by a release, also when an
\* exception is propagating; and a context waiting for the lock gets it.
C35_NoDeadlock ==
    /\ [](play_request_lock = "net" <=> net_pc \in NetHoldPcs)
    /\ [](play_request_lock = "audio" <=> pc \in AudioHoldPcs)
    /\ (play_request_lock # "free") ~> (play_request_lock = "free")
    /\ (net_pc \in NetWaitPcs) ~> (net_pc \in NetHoldPcs)
    /\ (pc \in AudioWaitPcs) ~> (pc \in AudioHoldPcs)

\* Witness: main's finally clause holds the lock with an exception
\* propagating while the handler of a /play waits for it.
C35_Witness ==
    /\ pc = "idle_sleep" /\ exc # None
    /\ play_request_lock = "audio"
    /\ net_pc = "play_lock"

\* ---------------------------------------------------------------------------
\* The byte size of the buffers play_audio pulls (main.py lines 36-40).
PlaybackBytes == PlaybackFrames * frame_size

\* C36: the streamer's cursor and slot index change only by a pull of the
\* pre-fill or of the steady-state loop, which advances them by one buffer;
\* nothing resets them between playbacks, so at every moment, and so at the
\* start of every playback, the cursor is (number of buffers pulled so far)
\* * N mod L.
C36_PositionPersists ==
    /\ [](byte_position = (pulled * PlaybackBytes) % Len(data))
    /\ [][(byte_position' # byte_position \/ current' # current) =>
            /\ pc \in {"prefill", "loop"}
            /\ byte_position' = (byte_position + PlaybackBytes) % Len(data)
            /\ current' = (current + 1) % 3]_vars
    /\ [][(pc = "deadline" /\ pc' = "prefill") => UNCHANGED streamVars]_vars

\* Witness: a playback starts its pre-fill at offset 2 of the three-byte
\* file, where the four buffers of two bytes of the previous one ended.
C36_Witness ==
    /\ pc = "prefill" /\ i = 0
    /\ buf_bytes = PlaybackBytes
    /\ byte_position = 2
    /\ pulled = 4 % Len(data)
    /\ current = 1

\* ---------------------------------------------------------------------------
\* C37: server_running implies wifi_connected in every state; a connection
\* is accepted and handled only while both flags are true; server_running
\* is set, and the listening socket opened, only when wifi_connected is true
\* and server_running false; so every /status response reports both flags
\* true and the interface address, never "Not connected".
C37_ServedOnlyWhileConnected ==
    /\ [](server_running => wifi_connected)
    /\ [](conn_pc \in {"accept", "handle"} => (wifi_connected /\ server_running))
    /\ [][(server_running' /\ ~server_running) =>
            (wifi_connected /\ wifi_connected' /\ sock' = "listening")]_vars
    /\ []((client.open /\ client.request = "status" /\ response.status = "success") =>
            response = StatusResponse(TRUE, TRUE))

\* Witness: a /status response reporting both flags true has been sent on
\* the second listening socket, while the link is already down again.
C37_Witness ==
    /\ client.open /\ client.request = "status"
    /\ net_pc = "sent" /\ client.sent = 1
    /\ response = StatusResponse(TRUE, TRUE)
    /\ wlan # "up"
    /\ sessions = 2

\* ---------------------------------------------------------------------------
\* The two contexts with /play requests whose parameters may be absent: the
\* duration parameter is absent, 0 or infinite, the volume absent or full.
DurationParams == {None, <<0>>, <<Inf>>}
VolumeParams == {None, <<100>>}

DefaultNetNext ==
    \/ \E dp \in DurationParams, vp \in VolumeParams : NetAcceptPlayDefault(dp, vp)
    \/ NetAcceptPlayBad
    \/ LockNetNext

SpecDefault == Init /\ [][DefaultNetNext \/ LockAudioNext]_vars

\* C38: the handler never records an absent duration (an absent parameter is
\* recorded as the default), so no play request in the mailbox or in the
\* hands of the audio context lacks a duration, play_audio never runs in its
\* mode without a deadline, and every iteration of the steady-state loop
\* starts before the deadline and moves the clock one tick towards it.
C38_AlwaysBounded ==
    /\ [](n_duration # NoDuration)
    /\ [](play_request # None => play_request[1].duration # NoDuration)
    /\ [](request # None => request[1].duration # NoDuration)
    /\ [](pc = "loop" => elapsed <= request[1].duration + MaxDuration)
    /\ [][(pc = "loop" /\ pulled' # pulled) =>
            /\ elapsed < request[1].duration
            /\ elapsed' = elapsed + 1]_vars

\* Witness: a playback requested without a duration parameter has run its
\* steady-state loop up to the default deadline and ended there.
C38_Witness ==
    /\ request # None /\ request[1].duration = DefaultDuration
    /\ request[1].volume = DefaultVolume
    /\ pc = "disable" /\ abort = "completed"
    /\ elapsed = DefaultDuration

====
